---- MODULE Spec2Model ----
(***************************************************************************)
(* The Confluence document-merge engine of submit-wars                     *)
(* (ConfluenceService in src/src/utils/formatUtils.ts), the process that   *)
(* drives it in its two modes (main, processWeek and fillInMissingWeeks in *)
(* src/src/index.ts with TogglService.fetchTimeRecords in                  *)
(* src/src/services/togglService.ts), formatTimeRecords                    *)
(* (src/src/utils/formatUtils.ts) and the date utilities getLastWeekDates  *)
(* and getAllWeeksInYear (src/src/direct-run.ts).                          *)
(*                                                                         *)
(* The page text is a sequence of tokens.  A token is a record [k, v]:     *)
(*   k = "h1"  the text <h1>v</h1>                                         *)
(*   k = "h2"  the text <h2>w/e v</h2>, v a DD/MM label                    *)
(*   k = "h3"  the text <h3>v</h3>                                         *)
(*   k = "txt" a run of text v of at least two characters that holds no    *)
(*             heading and no line break                                   *)
(*   k = "nl"  one line break                                              *)
(* Every regular expression of the source is evaluated on that sequence    *)
(* as the source evaluates it on the characters.  Names and labels are     *)
(* plain words and DD/MM dates: they hold no regular-expression            *)
(* metacharacter and are written in one letter case.                       *)
(*                                                                         *)
(* The store and the system clock are the environment.  postReport sends   *)
(* a GET and then a PUT, and the store can take the PUT of another call    *)
(* between the two; it can take a PUT and answer 200, take it and answer   *)
(* with another 2xx status, or not take it.  In Spec and SpecDocs the      *)
(* calls of the two users overlap in every way; in SpecFill, SpecFillDocs  *)
(* and SpecMain the run is the only writer of the page.  Every new Date()  *)
(* of a merge is a reading of the clock, and the clock can advance between *)
(* any two readings of one merge: on the same day, to a later day, or to a *)
(* later year.  A run is one action for every stretch of main between two  *)
(* awaits: each action starts at the answer to a request (or at the end of *)
(* the pause) and ends where the next request is sent.                     *)
(***************************************************************************)
EXTENDS Integers, Sequences, FiniteSets, TLC

VARIABLES page, last, run, calc, flight

vars == <<page, last, run, calc, flight>>

(***************************************************************************)
(* Bounds of the model.                                                    *)
(***************************************************************************)
\* Longest page text, in tokens, the store holds when a SpecDocs run starts.
MaxInitLen == 3

\* Longest list of entries formatTimeRecords is applied to in SpecFormat.
MaxEntries == 3

\* Last day of the year that is taken for today in SpecDates.
MaxToday == 40

\* Longest page text, in tokens, the store holds when a SpecFillDocs run starts.
MaxFillDocLen == 2
\* SpecDocs stops writing once the page version reaches this number.
MaxDocsVersion == 2
\* Spec stops writing once the page version reaches this number.
MaxVersion == 9
\* Most merges that wrote the page a backfill run starts from.
MaxFillInit == 2
\* Most upstream requests one fetchTimeRecords call sends.
MaxRequests == 3

(***************************************************************************)
(* Tokens.                                                                 *)
(***************************************************************************)
H1(m) == [k |-> "h1", v |-> m]
H2(w) == [k |-> "h2", v |-> w]
H3(u) == [k |-> "h3", v |-> u]
Txt(t) == [k |-> "txt", v |-> t]
NL == [k |-> "nl", v |-> ""]

monthNames == <<"January", "February", "March", "April", "May", "June",
                "July", "August", "September", "October", "November", "December">>

MonthNameSet == {monthNames[i] : i \in 1..12}

\* Array.prototype.indexOf on monthNames: 0-based, -1 when absent.
MonthIndexOf(m) ==
    IF m \in MonthNameSet THEN (CHOOSE i \in 1..12 : monthNames[i] = m) - 1 ELSE -1

\* Days of each month of a common year.
DaysIn == <<31, 28, 31, 30, 31, 30, 31, 31, 30, 31, 30, 31>>

\* A leap year, for the years 1901 to 2099.
IsLeap(year) == year % 4 = 0

\* Days of month number mo (1..12) of a year.
DaysInMonth(mo, year) == IF IsLeap(year) /\ mo = 2 THEN 29 ELSE DaysIn[mo]

\* The first year of the model's calendar.
FirstYear == 2024

\* Days from 1 January of FirstYear to 1 January of year.
DaysBeforeYear(year) == 365 * (year - FirstYear) + ((year - FirstYear + 3) \div 4)

RECURSIVE DaysBefore(_)
\* Days of the year before the first day of month number mo (1..13).
DaysBefore(mo) == IF mo <= 1 THEN 0 ELSE DaysBefore(mo - 1) + DaysIn[mo - 1]

(***************************************************************************)
(* The inputs of the model.                                                *)
(***************************************************************************)
\* Week-ending dates: the label DD/MM and the numbers parseInt reads from it.
WeekLabels == {"14/03", "07/03", "12/02"}

LabelDay(w) == CASE w = "14/03" -> 14 [] w = "07/03" -> 7 [] w = "12/02" -> 12
                 [] w = "17/01" -> 17 [] w = "10/01" -> 10 [] w = "03/01" -> 3

LabelMonth(w) == CASE w = "14/03" -> 3 [] w = "07/03" -> 3 [] w = "12/02" -> 2
                   [] w = "17/01" -> 1 [] w = "10/01" -> 1 [] w = "03/01" -> 1

DisplayNames == {"Alice", "Bob"}

\* process.env.CONFLUENCE_DISPLAY_NAME and process.env.CONFLUENCE_USERNAME
\* of the run when the environment sets them, and the name the program
\* takes when it sets neither.
DisplayNameSet == "Alice"
UserNameSet == "alice"
DefaultName == "Andres"

\* The display names a call of postReport can carry.
Callers == DisplayNames \cup {DisplayNameSet, UserNameSet, DefaultName}

Bodies == {"b1"}

\* Milliseconds of a day, as far as the model tells them apart: the first
\* and the last.
MsPerDay == 2

\* An instant of the system clock: the year, the day of the month and the
\* millisecond of the day.  The month of the instant is not kept: setMonth
\* replaces it.
At(year, day, ms) == [year |-> year, day |-> day, ms |-> ms]

\* Instants of the system clock, in the order of time: the last
\* millisecond of 29 January 2024 and the first of 30 January 2024 (a day
\* that February of that year has and a day it has not); the first and the
\* last millisecond of 15 January 2025; the last millisecond of 30 January
\* 2025 and the first of 31 January 2025; the last millisecond of
\* 31 December 2025 and the first of 1 January 2026.
Instants ==
    <<At(2024, 29, MsPerDay - 1), At(2024, 30, 0),
      At(2025, 15, 0), At(2025, 15, MsPerDay - 1),
      At(2025, 30, MsPerDay - 1), At(2025, 31, 0),
      At(2025, 31, MsPerDay - 1), At(2026, 1, 0)>>

RECURSIVE ClocksFrom(_, _, _)
\* The sequences of n instants out of instants[lo], instants[lo + 1], ...,
\* in which no instant is earlier than the one before it.
ClocksFrom(instants, n, lo) ==
    IF n = 0 THEN {<<>>}
    ELSE UNION {{<<instants[k]>> \o c : c \in ClocksFrom(instants, n - 1, k)} :
                   k \in lo..Len(instants)}

\* The system clock during one merge that calls new Date() n times: the
\* instants the calls return, in the order of the calls.  The clock can
\* advance between any two calls, and a later reading is never earlier.
Clocks(n) == ClocksFrom(Instants, n, 1)

\* new Date(), the n-th reading of the clock of one merge.
Reading(clock, n) == clock[n]

Min(S) == CHOOSE x \in S : \A y \in S : x <= y
Max(S) == CHOOSE x \in S : \A y \in S : x >= y

(***************************************************************************)
(* const date = new Date(); date.setMonth(monthNum); date.setDate(day):    *)
(* getTime() of the date, in milliseconds from the start of FirstYear.     *)
(* setMonth keeps the year, the day of the month and the time of day of    *)
(* the reading now, and a day past the end of the month rolls into the     *)
(* next month before setDate.                                              *)
(***************************************************************************)
DateOf(day, monthNum, now) ==
    LET mo == IF now.day > DaysInMonth(monthNum + 1, now.year)
              THEN monthNum + 2 ELSE monthNum + 1
        dayOfYear == DaysBefore(mo) + (IF IsLeap(now.year) /\ mo > 2 THEN 1 ELSE 0) + day
    IN  (DaysBeforeYear(now.year) + dayOfYear) * MsPerDay + now.ms

(***************************************************************************)
(* The regular expressions.                                                *)
(***************************************************************************)
\* The pattern without the 's' flag: '.' stops at a line break, so the user
\* heading is found only on the line of the week heading.
userHeadingPatternTest_NoDotAll(content, weekEndDate, displayName) ==
    \E i \in 1..Len(content) : \E j \in (i + 1)..Len(content) :
        /\ content[i] = H2(weekEndDate)
        /\ content[j] = H3(displayName)
        /\ \A x \in (i + 1)..(j - 1) : content[x].k # "nl"

\* new RegExp(`<h2>w/e ${weekEndDate}</h2>.*?<h3>${displayName}</h3>`, 's').test
userHeadingPatternTest(content, weekEndDate, displayName) ==
    \E i \in 1..Len(content) : \E j \in (i + 1)..Len(content) :
        content[i] = H2(weekEndDate) /\ content[j] = H3(displayName)

\* The pattern with the space after "w/e" left out: it matches no week heading.
weekHeadingPatternTest_NoSpace(content, weekEndDate) ==
    \E i \in 1..Len(content) :
        content[i].k = "h2" /\ "w/e " \o content[i].v = "w/e" \o weekEndDate

\* new RegExp(`<h2>w/e ${weekEndDate}</h2>`, 'i').test
weekHeadingPatternTest(content, weekEndDate) ==
    \E i \in 1..Len(content) : content[i] = H2(weekEndDate)

\* new RegExp(`<h1>${month}</h1>`, 'i').test
monthHeadingPatternTest(content, month) ==
    \E i \in 1..Len(content) : content[i] = H1(month)

\* The pre-check that looks for the user's heading in the block of the week
\* only: the match does not run across the next week or month heading.
hasWeekForUser_OwnBlock(content, weekEndDate, displayName) ==
    \E i \in 1..Len(content) : \E j \in (i + 1)..Len(content) :
        /\ content[i] = H2(weekEndDate)
        /\ content[j] = H3(displayName)
        /\ \A x \in (i + 1)..(j - 1) : content[x].k \notin {"h1", "h2"}

\* hasWeekForUser: new RegExp(`<h2>w/e ${weekEndDate}</h2>.*?<h3>${displayName}</h3>`,
\* 's').test(content); with the 's' flag the dot also matches line breaks
\* and headings, so the user heading may stand anywhere after the week
\* heading.
hasWeekForUser(content, weekEndDate, displayName) ==
    \E i \in 1..Len(content) :
        /\ content[i] = H2(weekEndDate)
        /\ \E j \in (i + 1)..Len(content) : content[j] = H3(displayName)

(***************************************************************************)
(* The three section templates.                                            *)
(***************************************************************************)
createFullSection(month, weekEndDate, displayName, formattedContent) ==
    <<NL, H1(month), NL, H2(weekEndDate), NL, H3(displayName), NL,
      Txt(formattedContent), NL, NL>>

createWeekSection(weekEndDate, displayName, formattedContent) ==
    <<NL, H2(weekEndDate), NL, H3(displayName), NL, Txt(formattedContent), NL, NL>>

\* The user template with a level-4 heading.
createUserSection_H4(displayName, formattedContent) ==
    <<NL, [k |-> "h4", v |-> displayName], NL, Txt(formattedContent), NL, NL>>

createUserSection(displayName, formattedContent) ==
    <<NL, H3(displayName), NL, Txt(formattedContent), NL, NL>>

(***************************************************************************)
(* extractMonthSections: /<h1>([A-Za-z]+)<\/h1>([\s\S]*?)(?=<h1>|$)/g.     *)
(* A match starts at every level-1 heading and runs to the token before    *)
(* the next level-1 heading, or to the end of the text.  Only the matches  *)
(* whose name is one of the twelve month names are kept, and Map.set keeps *)
(* the last match of a name.                                               *)
(***************************************************************************)
H1Positions(content) == {i \in 1..Len(content) : content[i].k = "h1"}

SectionEnd(content, i) ==
    LET later == {j \in H1Positions(content) : j > i}
    IN  IF later = {} THEN Len(content) ELSE Min(later) - 1

extractMonthSections(content) ==
    LET starts == {i \in H1Positions(content) : content[i].v \in MonthNameSet}
        names == {content[i].v : i \in starts}
        lastOf(n) == Max({i \in starts : content[i].v = n})
    IN  [n \in names |-> SubSeq(content, lastOf(n), SectionEnd(content, lastOf(n)))]

(***************************************************************************)
(* The week headings of a month section, /<h2>w\/e (\d{2})\/(\d{2})<\/h2>/g*)
(* in text order, each with the date the source builds for it and the      *)
(* number of tokens before it (its index in the text).                     *)
(***************************************************************************)
\* The week headings among the first i tokens of a month section.
WeekHeadingsUpTo(monthContent, i) == {p \in 1..i : monthContent[p].k = "h2"}

RECURSIVE weekHeadingsFrom(_, _, _)
weekHeadingsFrom(monthContent, i, clock) ==
    IF i > Len(monthContent) THEN <<>>
    ELSE (IF monthContent[i].k = "h2"
          THEN <<[date |-> DateOf(LabelDay(monthContent[i].v),
                                  LabelMonth(monthContent[i].v) - 1,
                                  Reading(clock,
                                          Cardinality(WeekHeadingsUpTo(monthContent, i)))),
                  index |-> i - 1]>>
          ELSE <<>>)
         \o weekHeadingsFrom(monthContent, i + 1, clock)

RECURSIVE InsertDesc(_, _)
\* h put into hs, which is sorted newest first, after every entry that is not older.
InsertDesc(hs, h) ==
    IF hs = <<>> THEN <<h>>
    ELSE IF Head(hs).date >= h.date THEN <<Head(hs)>> \o InsertDesc(Tail(hs), h)
    ELSE <<h>> \o hs

RECURSIVE SortDesc(_, _)
\* weekHeadings.sort((a, b) => b.date.getTime() - a.date.getTime()): a stable sort.
SortDesc(hs, n) == IF n = 0 THEN <<>> ELSE InsertDesc(SortDesc(hs, n - 1), hs[n])

\* monthContent.substring(heading.index + 20).match(/<h[12][^>]*>/i): the search
\* starts two characters after the 18 characters of the week heading, so a
\* heading that starts within those two characters is not found.
NextHeadingAfterWeek(monthContent, index) ==
    LET t == index + 1
        found == {p \in (t + 1)..Len(monthContent) :
                     /\ monthContent[p].k \in {"h1", "h2"}
                     /\ \/ p > t + 2
                        \/ p = t + 2 /\ monthContent[t + 1].k # "nl"}
    IN  IF found = {} THEN -1 ELSE Min(found) - 1

RECURSIVE WeekInsertLoop(_, _, _, _, _)
\* The for loop over the sorted week headings; insertPosition when it ends.
WeekInsertLoop(monthContent, sorted, i, newDate, insertPosition) ==
    IF i > Len(sorted) THEN insertPosition
    ELSE IF sorted[i].date < newDate THEN sorted[i].index
    ELSE IF i = Len(sorted)
         THEN LET next == NextHeadingAfterWeek(monthContent, sorted[i].index)
              IN  IF next # -1 THEN next ELSE Len(monthContent)
    ELSE WeekInsertLoop(monthContent, sorted, i + 1, newDate, insertPosition)

\* The branch "Add new week to existing month".
AddWeekToMonth(monthContent, weekEndDate, displayName, formattedContent, clock) ==
    LET weekHeadings == weekHeadingsFrom(monthContent, 1, clock)
        newDate == DateOf(LabelDay(weekEndDate), LabelMonth(weekEndDate) - 1,
                          Reading(clock, Len(weekHeadings) + 1))
        weekSection == createWeekSection(weekEndDate, displayName, formattedContent)
        h1EndIndex == Min({i \in 1..Len(monthContent) : monthContent[i].k = "h1"})
        sorted == SortDesc(weekHeadings, Len(weekHeadings))
        insertPosition == WeekInsertLoop(monthContent, sorted, 1, newDate, h1EndIndex)
    IN  SubSeq(monthContent, 1, insertPosition) \o weekSection
            \o SubSeq(monthContent, insertPosition + 1, Len(monthContent))

\* The heading levels /<h[123][^>]*>/i finds when a user is added to a week.
UserInsertHeadingLevels == {"h1", "h2", "h3"}

\* The branch "Add user to existing week".
AddUserToWeek(monthContent, weekEndDate, displayName, formattedContent) ==
    LET weeks == {i \in 1..Len(monthContent) : monthContent[i] = H2(weekEndDate)}
        first == Min(weeks)
        rest == weeks \ {first}
        \* monthContent.split(weekPattern): parts[0] and parts[1]; later parts are unused.
        part0 == SubSeq(monthContent, 1, first - 1)
        afterWeekHeading ==
            SubSeq(monthContent, first + 1,
                   IF rest = {} THEN Len(monthContent) ELSE Min(rest) - 1)
        heads == {p \in 1..Len(afterWeekHeading) :
                     afterWeekHeading[p].k \in UserInsertHeadingLevels}
        userSection == createUserSection(displayName, formattedContent)
    IN  IF heads # {}
        THEN part0 \o <<H2(weekEndDate)>> \o SubSeq(afterWeekHeading, 1, Min(heads) - 1)
                 \o userSection
                 \o SubSeq(afterWeekHeading, Min(heads), Len(afterWeekHeading))
        ELSE part0 \o <<H2(weekEndDate)>> \o afterWeekHeading \o userSection

addContentToMonthSections(sections, month, weekEndDate, displayName, formattedContent, clock) ==
    IF month \in DOMAIN sections
    THEN LET monthContent == sections[month]
             weekExists == weekHeadingPatternTest(monthContent, weekEndDate)
             userExists == userHeadingPatternTest(monthContent, weekEndDate, displayName)
         IN  IF userExists THEN sections
             ELSE IF weekExists
             THEN [sections EXCEPT ![month] =
                     AddUserToWeek(monthContent, weekEndDate, displayName,
                                   formattedContent)]
             ELSE [sections EXCEPT ![month] =
                     AddWeekToMonth(monthContent, weekEndDate, displayName,
                                    formattedContent, clock)]
    ELSE [n \in DOMAIN sections \cup {month} |->
             IF n = month
             THEN createFullSection(month, weekEndDate, displayName, formattedContent)
             ELSE sections[n]]

\* The number of new Date() calls of one merge: in the branch that adds a
\* week to a month, one for every week heading of the month section and one
\* for the new week; none in the other branches.
DatesRead(currentContent, month, weekEndDate, displayName) ==
    IF userHeadingPatternTest(currentContent, weekEndDate, displayName) THEN 0
    ELSE LET sections == extractMonthSections(currentContent)
         IN  IF month \notin DOMAIN sections THEN 0
             ELSE IF \/ userHeadingPatternTest(sections[month], weekEndDate, displayName)
                     \/ weekHeadingPatternTest(sections[month], weekEndDate)
             THEN 0
             ELSE Cardinality(WeekHeadingsUpTo(sections[month], Len(sections[month]))) + 1

RECURSIVE ConcatMonthsFrom(_, _)
\* The sections of the months with index idx, idx - 1, ..., 0, in that order.
ConcatMonthsFrom(sections, idx) ==
    IF idx < 0 THEN <<>>
    ELSE (IF monthNames[idx + 1] \in DOMAIN sections
          THEN sections[monthNames[idx + 1]] ELSE <<>>)
         \o ConcatMonthsFrom(sections, idx - 1)

\* Keys sorted by bIndex - aIndex (December first), their sections concatenated.
regenerateOrderedContent(sections) == ConcatMonthsFrom(sections, 11)

AlreadyExists == "Report already exists for week ending"
AddedUserToWeek == "Added report to existing week ending"
AddedWeekToMonth == "Added new week ending"
AddedNewMonth == "Added new month"

prepareUpdatedContent(currentContent, formattedContent, month, weekEndDate, displayName, clock) ==
    IF userHeadingPatternTest(currentContent, weekEndDate, displayName)
    THEN [updatedContent |-> currentContent, status |-> AlreadyExists]
    ELSE LET monthSections == extractMonthSections(currentContent)
             updatedSections ==
                 addContentToMonthSections(monthSections, month, weekEndDate,
                                           displayName, formattedContent, clock)
             orderedContent == regenerateOrderedContent(updatedSections)
             status ==
                 IF userHeadingPatternTest(currentContent, weekEndDate, displayName)
                 THEN AlreadyExists
                 ELSE IF weekHeadingPatternTest(currentContent, weekEndDate)
                 THEN AddedUserToWeek
                 ELSE IF monthHeadingPatternTest(currentContent, month)
                 THEN AddedWeekToMonth
                 ELSE AddedNewMonth
         IN  [updatedContent |-> orderedContent, status |-> status]

(***************************************************************************)
(* postReport: one snapshot of the page (the GET request of                *)
(* getPageContent), the merge, and a write (the PUT request of savePage)   *)
(* only when the merged text differs from the snapshot.  The two requests  *)
(* are awaited one after the other, so the call takes two steps and the    *)
(* store can take the write of another call between them; flight holds,    *)
(* for every display name, the call that has sent its GET and not yet its  *)
(* PUT.  endDate is the week-ending date of dateRange; month and           *)
(* weekEndDate are both formatted from it.                                 *)
(***************************************************************************)
MonthOfEndDate(endDate) == monthNames[LabelMonth(endDate)]

\* No payload: savePage was not called.
NoPayload == [content |-> <<>>, title |-> "", version |-> 0]

\* The payload with the version of the snapshot sent back as it was read.
SavePayload_SameVersion(title, content, currentVersion) ==
    [content |-> content, title |-> title, version |-> currentVersion]

\* savePage: the payload of the PUT request.
SavePayload(title, content, currentVersion) ==
    [content |-> content, title |-> title, version |-> currentVersion + 1]

\* The snapshot that holds the text the run read before its loop, not the
\* text the store holds now.
getPageContent_FirstSnapshot(stored) == [stored EXCEPT !.content = run.existingContent]

\* getPageContent when the GET request is answered: content, title and
\* version of the stored page.
getPageContent(stored) == stored

\* postReport without the comparison of the merged text with the snapshot:
\* savePage is called after every merge.
NeedsSave_Always(updatedContent, currentContent) == TRUE

\* if (updatedContent !== currentPageData.content)
NeedsSave(updatedContent, currentContent) == updatedContent # currentContent

\* What the store does with a PUT request:
\*   "200"       it takes the payload and answers 200;
\*   "204"       it takes the payload and answers with another 2xx status;
\*   "rejected"  it does not take the payload and answers with an error
\*               status (409 for a version it does not expect, 5xx), or
\*               the request does not reach it.
\* A store that checks the version rejects a payload whose version is not
\* the stored version plus one; a store that does not check takes it.
PutAnswers == {"200", "204", "rejected"}

\* savePage that sends the PUT request again when it was rejected; the
\* second PUT is answered with 200.
savePage_PutAgain(stored, payload, answer) ==
    [page |-> payload,
     threw |-> answer = "204",
     puts |-> IF answer = "rejected" THEN 2 ELSE 1]

\* savePage: one PUT request; axios throws on an error status and on no
\* answer, and savePage throws when response.status !== 200.  page is the
\* stored page after the request.
savePage(stored, payload, answer) ==
    [page |-> IF answer = "rejected" THEN stored ELSE payload,
     threw |-> answer # "200",
     puts |-> 1]

\* No call is between its GET and its PUT.
NoCall == [endDate |-> "", displayName |-> "", body |-> "",
           snapshot |-> NoPayload, output |-> <<>>, status |-> "",
           payload |-> NoPayload]

NoLast == [kind |-> "none", endDate |-> "", displayName |-> "", body |-> "",
           input |-> <<>>, output |-> <<>>, status |-> "", put |-> "none",
           answer |-> "none", puts |-> 0, snapshot |-> NoPayload,
           before |-> NoPayload, payload |-> NoPayload]

\* The record of a call that returned or threw: what it read, merged and
\* sent, the answer to its PUT ("none" when it sent none), and the stored
\* page before that PUT (before the return when it sent none).
Returned(call, saved, answer, stored) ==
    [kind |-> "merged", endDate |-> call.endDate, displayName |-> call.displayName,
     body |-> call.body, input |-> call.snapshot.content,
     output |-> call.output, status |-> call.status,
     put |-> IF saved.puts = 0 THEN "none" ELSE IF saved.threw THEN "failed" ELSE "ok",
     answer |-> answer, puts |-> saved.puts, snapshot |-> call.snapshot,
     before |-> stored,
     payload |-> IF saved.puts = 0 THEN NoPayload ELSE call.payload]

\* savePage was not called.
NotSaved == [page |-> NoPayload, threw |-> FALSE, puts |-> 0]

\* postReport from its start to the PUT request: the GET request is
\* answered, the merge runs, and the call returns here when the merged text
\* is the snapshot's.
PostReport(endDate, displayName, formattedContent, clock) ==
    /\ flight[displayName] = NoCall
    /\ \E currentPageData \in {getPageContent(page)} :
       \E r \in {prepareUpdatedContent(currentPageData.content, formattedContent,
                                      MonthOfEndDate(endDate), endDate,
                                      displayName, clock)} :
       LET call == [endDate |-> endDate, displayName |-> displayName,
                    body |-> formattedContent,
                    snapshot |-> currentPageData, output |-> r.updatedContent,
                    status |-> r.status,
                    payload |-> SavePayload(currentPageData.title, r.updatedContent,
                                            currentPageData.version)]
       IN  IF NeedsSave(r.updatedContent, currentPageData.content)
           THEN /\ flight' = [flight EXCEPT ![displayName] = call]
                /\ UNCHANGED <<page, last>>
           ELSE /\ last' = Returned(call, NotSaved, "none", page)
                /\ UNCHANGED <<page, flight>>

\* The rest of postReport: the PUT request of savePage is answered, and the
\* call returns or throws.
PostReportSave(displayName, answer) ==
    /\ flight[displayName] # NoCall
    /\ \E saved \in {savePage(page, flight[displayName].payload, answer)} :
          /\ page' = saved.page
          /\ last' = Returned(flight[displayName], saved, answer, page)
    /\ flight' = [flight EXCEPT ![displayName] = NoCall]

\* postReport when getPageContent throws: nothing is merged and nothing is written.
PostReportGetFails ==
    /\ last' = [NoLast EXCEPT !.kind = "getFailed"]
    /\ UNCHANGED <<page, flight>>

\* The number of new Date() calls of the merge of a call that starts now.
DatesReadNow(endDate, displayName) ==
    DatesRead(getPageContent(page).content, MonthOfEndDate(endDate), endDate,
              displayName)

\* A call of postReport starts, for any week, by any user, at any time.
PostReportStep ==
    \E endDate \in WeekLabels, displayName \in DisplayNames, formattedContent \in Bodies :
       \E clock \in Clocks(DatesReadNow(endDate, displayName)) :
          PostReport(endDate, displayName, formattedContent, clock)

\* A call that has sent its PUT gets its answer.
PostReportSaveStep ==
    \E displayName \in DisplayNames, answer \in PutAnswers :
       PostReportSave(displayName, answer)

(***************************************************************************)
(* Spec: the page is empty when the first run starts, and every later text *)
(* is one the program wrote.                                               *)
(***************************************************************************)
\* No earliestAllowedDate is known.
NoDate == -100

\* The upstream requests processWeek has sent for its week so far.  None
\* when no week is being processed.
NoPending == <<>>

\* The process before main has done anything: no call made, no week handled.
\* mode is "fill" when --fill-all-weeks is among the arguments, and missing
\* holds the names of the variables the environment does not set.
IdleRun == [pc |-> "idle", existingContent |-> <<>>, projectMap |-> "none", i |-> 0,
            processedCount |-> 0, skippedCount |-> 0, errorCount |-> 0,
            noDataCount |-> 0, earliestAllowedDate |-> NoDate, log |-> <<>>,
            mode |-> "single", missing |-> {}, startGet |-> "none",
            pending |-> NoPending, startDate |-> NoDate, formattedReport |-> ""]

\* No pure function has been applied.
NoCalc == [fn |-> "none"]

\* No call of postReport is between its GET and its PUT.
NoFlight == [u \in Callers |-> NoCall]

Init ==
    /\ page = [content |-> <<>>, title |-> "WARs", version |-> 1]
    /\ last = NoLast
    /\ run = IdleRun
    /\ calc = NoCalc
    /\ flight = NoFlight

\* Calls of postReport by the two users, one call of a user at a time: a
\* call starts, or a call that waits for the answer to its PUT gets it.
Next ==
    /\ \/ page.version < MaxVersion /\ PostReportStep
       \/ page.version < MaxVersion /\ PostReportGetFails
       \/ PostReportSaveStep
    /\ UNCHANGED <<run, calc>>

Spec == Init /\ [][Next]_vars

(***************************************************************************)
(* SpecDocs: the store holds any short text when the run starts, written   *)
(* by hand or by another tool.                                             *)
(***************************************************************************)
InitTokens ==
    {H1("March"), H1("Notes"), H2("14/03"), H2("12/02"), H3("Alice"), Txt("intro"), NL}

InitDocs == UNION {[1..n -> InitTokens] : n \in 0..MaxInitLen}

InitDocs0 ==
    /\ page \in {[content |-> d, title |-> "WARs", version |-> 1] : d \in InitDocs}
    /\ last = NoLast
    /\ run = IdleRun
    /\ calc = NoCalc
    /\ flight = NoFlight

NextDocs ==
    /\ \/ page.version < MaxDocsVersion /\ PostReportStep
       \/ page.version < MaxDocsVersion /\ PostReportGetFails
       \/ PostReportSaveStep
    /\ UNCHANGED <<run, calc>>

SpecDocs == InitDocs0 /\ [][NextDocs]_vars

(***************************************************************************)
(* The backfill run: fillInMissingWeeks of src/src/index.ts with           *)
(* TogglService.fetchTimeRecords.  Dates are day numbers of the current    *)
(* year (1 = 1 January; 0 and below are days of the year before).          *)
(* The year is one that starts on a Wednesday and the run is on Monday     *)
(* 20 January, so getAllWeeksInYear gives the three weeks ending on the    *)
(* Fridays 3, 10 and 17 January.                                           *)
(***************************************************************************)
allWeeks == <<"03/01", "10/01", "17/01">>

\* The list taken as it is, oldest week first.
reversedWeeks_Forward == allWeeks

\* [...allWeeks].reverse()
reversedWeeks == [i \in 1..Len(allWeeks) |-> allWeeks[Len(allWeeks) + 1 - i]]

\* The day of the month of the run.
FillToday == 20

\* The instants of the system clock during the run: the first and the last
\* millisecond of 20 January 2025.
RunInstants == <<At(2025, FillToday, 0), At(2025, FillToday, MsPerDay - 1)>>

\* The system clock during a merge of the run that calls new Date() n times.
RunClocks(n) == ClocksFrom(RunInstants, n, 1)

\* week.endDate and week.startDate (the Monday four days before) as day numbers.
EndDateOf(w) == DaysBefore(LabelMonth(w)) + LabelDay(w)
StartDateOf(w) == EndDateOf(w) - 4

(***************************************************************************)
(* The date utilities.  A Date is the number of its day in the current     *)
(* year (1 for 1 January, 0 and below for the days of the December before) *)
(* and the time of the day, which is one of three instants: 0 for          *)
(* 00:00:00.000, 2 for 23:59:59.999 and 1 for any time between them.       *)
(* jan1 is getDay() of 1 January: 0 for Sunday, ..., 6 for Saturday.       *)
(***************************************************************************)
StartOfDay == 0
EndOfDay == 2

Date(day, time) == [day |-> day, time |-> time]

\* date1 <= date2 on the time values of the two dates.
NotAfter(date1, date2) ==
    date1.day < date2.day \/ (date1.day = date2.day /\ date1.time <= date2.time)

\* Date.prototype.getDay()
getDay(date, jan1) == (jan1 + date.day - 1) % 7

\* Date.prototype.getDate(): the day of the month.
getDate(date) ==
    IF date.day <= 0 THEN 31 + date.day
    ELSE LET mo == CHOOSE x \in 1..12 :
                       DaysBefore(x) < date.day /\ date.day <= DaysBefore(x) + DaysIn[x]
         IN  date.day - DaysBefore(mo)

\* Date.prototype.setDate(n): day n of the month of date, counted on into
\* the months after it or back into the months before it.
setDate(date, n) == [date EXCEPT !.day = (date.day - getDate(date)) + n]

\* Date.prototype.setHours(23, 59, 59, 999) and setHours(0, 0, 0, 0)
setHours(date, time) == [date EXCEPT !.time = time]

\* getLastWeekDates that takes today for the last Friday when today is one.
getLastWeekDates_TodayIfFriday(today, jan1) ==
    LET dayOfWeek == getDay(today, jan1)
        friday == IF dayOfWeek = 6 THEN setDate(today, getDate(today) - 1)
                  ELSE IF dayOfWeek = 0 THEN setDate(today, getDate(today) - 2)
                  ELSE setDate(today, getDate(today) - ((dayOfWeek + 2) % 7))
        lastFriday == setHours(friday, EndOfDay)
        mondayOfLastWeek == setHours(setDate(lastFriday, getDate(lastFriday) - 4), StartOfDay)
    IN  [startDate |-> mondayOfLastWeek, endDate |-> lastFriday]

\* getLastWeekDates with new Date() = today.
getLastWeekDates(today, jan1) ==
    LET dayOfWeek == getDay(today, jan1)
        friday == IF dayOfWeek = 6 THEN setDate(today, getDate(today) - 1)
                  ELSE IF dayOfWeek = 0 THEN setDate(today, getDate(today) - 2)
                  ELSE setDate(today, getDate(today) - (dayOfWeek + 2))
        lastFriday == setHours(friday, EndOfDay)
        mondayOfLastWeek == setHours(setDate(lastFriday, getDate(lastFriday) - 4), StartOfDay)
    IN  [startDate |-> mondayOfLastWeek, endDate |-> lastFriday]

\* The first Friday of the year, at the end of the day.
FirstFriday(jan1) ==
    LET startDate == Date(1, StartOfDay)
        dayOfWeek == getDay(startDate, jan1)
        currentDate == IF dayOfWeek # 5
                       THEN setDate(startDate, getDate(startDate) + ((5 - dayOfWeek + 7) % 7))
                       ELSE startDate
    IN  setHours(currentDate, EndOfDay)

RECURSIVE WeeksLoop_ThroughThisWeek(_, _, _)
\* The loop that also takes the week whose Friday has not ended yet.
WeeksLoop_ThroughThisWeek(weeks, currentDate, today) ==
    IF currentDate.day - 7 < today.day
    THEN WeeksLoop_ThroughThisWeek(
             Append(weeks, [startDate |-> setHours(setDate(currentDate, getDate(currentDate) - 4), StartOfDay),
                            endDate |-> currentDate]),
             setDate(currentDate, getDate(currentDate) + 7), today)
    ELSE weeks

RECURSIVE WeeksLoop(_, _, _)
\* while (currentDate <= today): one week is pushed and currentDate moves
\* to the next Friday.
WeeksLoop(weeks, currentDate, today) ==
    IF NotAfter(currentDate, today)
    THEN LET weekEndDate == currentDate
             weekStartDate == setHours(setDate(weekEndDate, getDate(weekEndDate) - 4),
                                       StartOfDay)
         IN  WeeksLoop(Append(weeks, [startDate |-> weekStartDate, endDate |-> weekEndDate]),
                       setDate(currentDate, getDate(currentDate) + 7), today)
    ELSE weeks

\* getAllWeeksInYear with new Date() = today.
getAllWeeksInYear(today, jan1) == WeeksLoop(<<>>, FirstFriday(jan1), today)

(***************************************************************************)
(* formatTimeRecords: the body of a report from the entries of a week.     *)
(* An entry is its pid (0 when the entry has none) and its description; a  *)
(* project map is a function from project ids to names.                    *)
(***************************************************************************)
\* The strings of the model in the order of their UTF-16 code units, the
\* order Array.prototype.sort() gives without a comparator.
CodeUnitOrder == <<"A", "B", "Docs", "No Project", "Site", "constructor">>

Rank(s) == CHOOSE x \in 1..Len(CodeUnitOrder) : CodeUnitOrder[x] = s

\* String.prototype.trim() on the descriptions of the model.
Trim(description) == IF description = " " THEN "" ELSE description

\* record.pid && projectMap[record.pid] ? projectMap[record.pid] : 'No Project'
ProjectNameOf(record, projectMap) ==
    IF record.pid # 0 /\ record.pid \in DOMAIN projectMap /\ projectMap[record.pid] # ""
    THEN projectMap[record.pid] ELSE "No Project"

\* record.description && record.description.trim() !== ''
HasDescription(record) == record.description # "" /\ Trim(record.description) # ""

\* A list in place of the Set: every description is kept.
SetAdd_KeepAll(set, value) == Append(set, value)

\* Set.prototype.add on a Set kept as the sequence of its elements in
\* insertion order.
SetAdd(set, value) ==
    IF \E x \in 1..Len(set) : set[x] = value THEN set ELSE Append(set, value)

\* The names of the model that projectGroups = {} has as properties it
\* inherits from Object.prototype: projectGroups[name] is a function, not a
\* Set, and is truthy.
InheritedNames == {"constructor"}

\* One turn of the forEach.  projectGroups is the sequence of its own keys
\* in insertion order, each with its Set.  The group of the entry's project
\* is created if (!projectGroups[projectName]); the description, if it is
\* not blank, is added with projectGroups[projectName].add, which throws a
\* TypeError when the value is not a Set.
AddRecord(projectGroups, record, projectMap) ==
    LET projectName == ProjectNameOf(record, projectMap)
        own == \E x \in 1..Len(projectGroups) : projectGroups[x].project = projectName
        created == IF own \/ projectName \in InheritedNames
                   THEN projectGroups
                   ELSE Append(projectGroups, [project |-> projectName, tasks |-> <<>>])
    IN  IF HasDescription(record) /\ ~own /\ projectName \in InheritedNames
        THEN [groups |-> created, threw |-> TRUE]
        ELSE [groups |-> [x \in 1..Len(created) |->
                            IF created[x].project = projectName /\ HasDescription(record)
                            THEN [created[x] EXCEPT !.tasks = SetAdd(@, record.description)]
                            ELSE created[x]],
              threw |-> FALSE]

RECURSIVE GroupRecords(_, _, _)
\* timeRecords.forEach(...), from the groups built so far; it ends at the
\* entry whose turn throws.
GroupRecords(projectGroups, timeRecords, projectMap) ==
    IF timeRecords = <<>> THEN [groups |-> projectGroups, threw |-> FALSE]
    ELSE LET added == AddRecord(projectGroups, Head(timeRecords), projectMap)
         IN  IF added.threw THEN added
             ELSE GroupRecords(added.groups, Tail(timeRecords), projectMap)

RECURSIVE SortStrings(_)
\* Array.prototype.sort() on strings: ascending by code units.
SortStrings(strings) ==
    IF strings = <<>> THEN <<>>
    ELSE LET rest == SortStrings(Tail(strings))
             before == SelectSeq(rest, LAMBDA t : Rank(t) < Rank(Head(strings)))
             after == SelectSeq(rest, LAMBDA t : Rank(t) >= Rank(Head(strings)))
         IN  before \o <<Head(strings)>> \o after

\* The keys of projectGroups as they are, in insertion order.
ProjectList_Unsorted(timeRecords, projectMap) ==
    GroupRecords(<<>>, timeRecords, projectMap).groups

\* The projects in the order they are written, each with the tasks in the
\* order they are written: Object.keys(projectGroups).sort(), and
\* Array.from(projectGroups[projectName]).sort() for each.
ProjectList(timeRecords, projectMap) ==
    LET projectGroups == GroupRecords(<<>>, timeRecords, projectMap).groups
        sortedProjects == SortStrings([x \in 1..Len(projectGroups) |-> projectGroups[x].project])
        GroupOf(projectName) ==
            CHOOSE x \in 1..Len(projectGroups) : projectGroups[x].project = projectName
    IN  [x \in 1..Len(sortedProjects) |->
            [project |-> sortedProjects[x],
             tasks |-> SortStrings(projectGroups[GroupOf(sortedProjects[x])].tasks)]]

RECURSIVE RenderTasks(_)
\* tasks.forEach(task => formattedOutput += `<li>${task}</li>`)
RenderTasks(tasks) ==
    IF tasks = <<>> THEN ""
    ELSE "<li>" \o Head(tasks) \o "</li>" \o RenderTasks(Tail(tasks))

RECURSIVE RenderProjects(_)
\* The for loop over sortedProjects: the nested list is written only for a
\* project that has a task.
RenderProjects(projects) ==
    IF projects = <<>> THEN ""
    ELSE "<li>" \o Head(projects).project
         \o (IF Len(Head(projects).tasks) > 0
             THEN "<ul>" \o RenderTasks(Head(projects).tasks) \o "</ul>"
             ELSE "")
         \o "</li>" \o RenderProjects(Tail(projects))

\* What formatTimeRecords returns for the empty list.
Placeholder == "No time records found for the last week."

\* formatTimeRecords throws in place of returning.
TypeErrorThrown == "TypeError: projectGroups[projectName].add is not a function"

\* formatTimeRecords that writes the projects and the tasks in the order of
\* their first entry.
formatTimeRecords_Unsorted(timeRecords, projectMap) ==
    IF Len(timeRecords) = 0 THEN Placeholder
    ELSE IF GroupRecords(<<>>, timeRecords, projectMap).threw THEN TypeErrorThrown
    ELSE "<ul>" \o RenderProjects(ProjectList_Unsorted(timeRecords, projectMap)) \o "</ul>"

\* The value formatTimeRecords returns, or TypeErrorThrown when it throws.
formatTimeRecords(timeRecords, projectMap) ==
    IF Len(timeRecords) = 0 THEN Placeholder
    ELSE IF GroupRecords(<<>>, timeRecords, projectMap).threw THEN TypeErrorThrown
    ELSE "<ul>" \o RenderProjects(ProjectList(timeRecords, projectMap)) \o "</ul>"

\* config.confluence.displayName, which the constructor of ConfluenceService
\* keeps: CONFLUENCE_DISPLAY_NAME || CONFLUENCE_USERNAME || 'Andres'.
confluenceDisplayName ==
    IF "CONFLUENCE_DISPLAY_NAME" \notin run.missing THEN DisplayNameSet
    ELSE IF "CONFLUENCE_USERNAME" \notin run.missing THEN UserNameSet
    ELSE DefaultName

\* The date the upstream names in "start_date must not be earlier than".
RangeDates == {15}

\* The entries the upstream holds for a week that has some.
WeekEntries == <<[pid |-> 1, description |-> "A"]>>

\* The projects the upstream holds: what fetchProjects returns when its
\* request succeeds, and the empty map it returns when it does not.
ProjectMapOf(projectMap) == IF projectMap = "map" THEN [x \in {1} |-> "Site"] ELSE <<>>

\* error.message of a request that failed: the text axios gives for an
\* error status, and a text of the upstream, which the source takes
\* error.message to hold when it looks for "start_date must not be earlier
\* than" in it.
ErrorMessages ==
    {"Request failed with status code 500", "No time records found on the server"}

\* What the upstream answers to one request: a list of at least one entry,
\* the empty list, a rejection that names the earliest allowed date, or any
\* other failure, with its message.
Responses ==
    {[kind |-> "entries", date |-> NoDate, entries |-> WeekEntries, message |-> ""]}
    \cup {[kind |-> "empty", date |-> NoDate, entries |-> <<>>, message |-> ""]}
    \cup {[kind |-> "fail", date |-> NoDate, entries |-> <<>>, message |-> m] :
             m \in ErrorMessages}
    \cup {[kind |-> "range", date |-> d, entries |-> <<>>, message |-> ""] :
             d \in RangeDates}

\* One upstream request as the log keeps it: the dates sent, the
\* earliestAllowedDate known when it was sent, and the answer.
Request(start, endDate, earliestAllowedDate, response) ==
    [startDate |-> start, endDate |-> endDate, known |-> earliestAllowedDate,
     response |-> response.kind, date |-> response.date]

\* fetchTimeRecords that neither stores the date of a range rejection nor
\* uses it: the retry repeats the request.
fetchTimeRecords_RetryUnclamped(startDate, endDate, earliestAllowedDate, response, sent) ==
    [result |-> response.kind, startDate |-> startDate,
     earliestAllowedDate |-> earliestAllowedDate,
     requests |-> Append(sent, Request(startDate, endDate, earliestAllowedDate, response)),
     timeRecords |-> response.entries]

\* fetchTimeRecords without the clamp of startDate at its start: the date of
\* a range rejection is stored and used for the retry only.
fetchTimeRecords_NoClamp(startDate, endDate, earliestAllowedDate, response, sent) ==
    [result |-> response.kind,
     startDate |-> IF response.kind = "range" THEN response.date ELSE startDate,
     earliestAllowedDate |-> IF response.kind = "range" THEN response.date
                             ELSE earliestAllowedDate,
     requests |-> Append(sent, Request(startDate, endDate, earliestAllowedDate, response)),
     timeRecords |-> response.entries]

\* One invocation of TogglService.fetchTimeRecords, from its start to the
\* answer to its request: the clamp of startDate, the request, and on a
\* range rejection the new earliestAllowedDate and the startDate of the
\* recursive call.  result is "range" when the invocation calls itself
\* again; sent holds the requests of the invocations before it.
fetchTimeRecords(startDate, endDate, earliestAllowedDate, response, sent) ==
    LET start == IF earliestAllowedDate # NoDate /\ startDate < earliestAllowedDate
                 THEN earliestAllowedDate ELSE startDate
    IN  [result |-> response.kind,
         startDate |-> IF response.kind = "range" THEN response.date ELSE start,
         earliestAllowedDate |-> IF response.kind = "range" THEN response.date
                                 ELSE earliestAllowedDate,
         requests |-> Append(sent, Request(start, endDate, earliestAllowedDate, response)),
         timeRecords |-> response.entries]

\* One entry of the log of a run: the week, the counter it incremented, the
\* upstream requests sent for it, the page calls made for it as the run saw
\* them end, whether the pass went on to the 2000 ms pause, the answer of
\* the store to the PUT of the week ("none" when none was sent), whether
\* the timer of the pause has run out, and the message of the error
\* processWeek threw (no text when it returned).
WeekRecord(week, counted, requests, get, put, pause) ==
    [week |-> week, counted |-> counted, requests |-> requests,
     get |-> get, put |-> put, pause |-> pause, answer |-> "none",
     paused |-> FALSE, message |-> <<>>]

\* The pause after processedCount++: if (i < reversedWeeks.length - 1), with
\* i the 0-based index of the week in reversedWeeks.
Pause(counted, i) == counted = "processed" /\ i < Len(allWeeks) - 1

\* The variables main checks before it constructs the services.
RequiredVariables ==
    {"TOGGL_API_TOKEN", "TOGGL_WORKSPACE_ID", "CONFLUENCE_USERNAME",
     "CONFLUENCE_API_TOKEN", "CONFLUENCE_BASE_URL"}

\* The variables config reads that main does not check.
OtherVariables == {"CONFLUENCE_PAGE_ID", "CONFLUENCE_SPACE_KEY", "CONFLUENCE_DISPLAY_NAME"}

\* The checks that look at the two Toggl variables only.
ConfigAbsent_TogglOnly(missing) ==
    missing \cap {"TOGGL_API_TOKEN", "TOGGL_WORKSPACE_ID"} # {}

\* The five checks of main: one of the variables it checks is not set.
ConfigAbsent(missing) == missing \cap RequiredVariables # {}

\* The catch without its else: a week with no entries is counted as an
\* error too.
Counted_NoDataIsAlsoError(counted, requests, get, put, earliest) ==
    [run EXCEPT !.i = @ + 1,
                !.processedCount = IF counted = "processed" THEN @ + 1 ELSE @,
                !.skippedCount = IF counted = "skipped" THEN @ + 1 ELSE @,
                !.errorCount = IF counted \in {"errored", "noData"} THEN @ + 1 ELSE @,
                !.noDataCount = IF counted = "noData" THEN @ + 1 ELSE @,
                !.earliestAllowedDate = earliest,
                !.log = Append(@, WeekRecord(reversedWeeks[run.i + 1], counted,
                                             requests, get, put,
                                             Pause(counted, run.i)))]

\* The counters and the log after one week.
Counted(counted, requests, get, put, earliest) ==
    [run EXCEPT !.i = @ + 1,
                !.processedCount = IF counted = "processed" THEN @ + 1 ELSE @,
                !.skippedCount = IF counted = "skipped" THEN @ + 1 ELSE @,
                !.errorCount = IF counted = "errored" THEN @ + 1 ELSE @,
                !.noDataCount = IF counted = "noData" THEN @ + 1 ELSE @,
                !.earliestAllowedDate = earliest,
                !.log = Append(@, WeekRecord(reversedWeeks[run.i + 1], counted,
                                             requests, get, put,
                                             Pause(counted, run.i)))]

\* The pre-check that takes a week heading alone for the user's report.
PreCheck_WeekOnly(week) == weekHeadingPatternTest(run.existingContent, week)

\* confluenceService.hasWeekForUser(existingContent, weekEndDateStr)
PreCheck(week) == hasWeekForUser(run.existingContent, week, confluenceDisplayName)

\* The messages of the errors processWeek throws.  A message is the
\* sequence of the texts it is put together from.
\* throw new Error("No time records found for this period")
NoTimeRecords == <<"No time records found for this period">>

\* throw new Error(`Failed to fetch time records: ${errorMessage}`)
FetchFailed(errorMessage) == <<"Failed to fetch time records: ", errorMessage>>

\* The error savePage throws: its own, `Failed to update Confluence page:
\* ${response.status}`, when the answer is not 200, and the error of the
\* request, thrown again, when the request failed.
PutMessage(answer, errorMessage) ==
    IF answer = "204" THEN <<"Failed to update Confluence page: ", "204">>
    ELSE <<errorMessage>>

\* The texts of the model that hold "No time records found".
NoTimeRecordsFound ==
    {"No time records found for this period", "No time records found on the server"}

\* The catch that counts every error as an error.
ErrorCounter_AllErrors(message) == "errored"

\* The catch of the loop: error.message.includes("No time records found").
ErrorCounter(message) ==
    IF \E n \in 1..Len(message) : message[n] \in NoTimeRecordsFound
    THEN "noData" ELSE "errored"

\* processWeek that goes on to format a list of zero entries.
ZeroEntries_Never(timeRecords) == FALSE

\* if (timeRecords.length === 0) throw new Error("No time records found ...")
ZeroEntries(timeRecords) == Len(timeRecords) = 0

\* new Date() of the run, and getDay() of 1 January of its year.
MainToday == Date(FillToday, 1)
MainJan1 == 3

\* toLocaleDateString('en-GB', {day: '2-digit', month: '2-digit'}) of an
\* end date of the model.
toLocaleDateString(date) ==
    CHOOSE w \in {"03/01", "10/01", "17/01"} : EndDateOf(w) = date.day

\* main that ends with exit code 0 whatever processWeek did.
MainExit_AlwaysZero(failed) == "done"

\* The try and the catch of main: process.exit(1) when the call threw, and
\* the end of main, exit code 0, when it returned.
MainExit(failed) == IF failed THEN "exit1" ELSE "done"

\* The run in the single-week mode as the log keeps it.
SingleRun(failed, projectMap, requests, get, put) ==
    [run EXCEPT !.pc = MainExit(failed), !.projectMap = projectMap,
                !.log = <<WeekRecord(toLocaleDateString(
                                         getLastWeekDates(MainToday, MainJan1).endDate),
                                     "single", requests, get, put, FALSE)>>]

\* The week processWeek is called for, and its dates as day numbers: the
\* week of the pass of the loop, or getLastWeekDates() in the single-week
\* mode.
ThisWeek ==
    IF run.mode = "fill" THEN reversedWeeks[run.i + 1]
    ELSE toLocaleDateString(getLastWeekDates(MainToday, MainJan1).endDate)

ThisStartDate ==
    IF run.mode = "fill" THEN StartDateOf(ThisWeek)
    ELSE getLastWeekDates(MainToday, MainJan1).startDate.day

ThisEndDate ==
    IF run.mode = "fill" THEN EndDateOf(ThisWeek)
    ELSE getLastWeekDates(MainToday, MainJan1).endDate.day

\* The run after processWeek has ended: nothing of the week is awaited.
Cleared(r) ==
    [r EXCEPT !.pending = NoPending, !.startDate = NoDate, !.formattedReport = ""]

\* processWeek throws an error with this message: the catch of the loop
\* counts the week, and main ends the process in the single-week mode.
Thrown(message, requests, get, put) ==
    Cleared(IF run.mode = "fill"
            THEN [Counted(ErrorCounter(message), requests, get, put,
                          run.earliestAllowedDate)
                  EXCEPT !.pc = "loop", !.log[Len(run.log) + 1].message = message]
            ELSE [SingleRun(TRUE, run.projectMap, requests, get, put)
                  EXCEPT !.log[1].message = message])

\* processWeek returns: processedCount++ and the pause before the next
\* week, or the end of main in the single-week mode.
Done(requests, get, put) ==
    Cleared(IF run.mode = "fill"
            THEN [Counted("processed", requests, get, put, run.earliestAllowedDate)
                  EXCEPT !.pc = IF Pause("processed", run.i) THEN "pause" ELSE "loop"]
            ELSE SingleRun(FALSE, run.projectMap, requests, get, put))

\* main when one of the checks fails: process.exit(1) before the services
\* are constructed.
MainConfigMissing ==
    /\ run.pc = "idle"
    /\ ConfigAbsent(run.missing)
    /\ run' = [run EXCEPT !.pc = "exit1"]
    /\ UNCHANGED <<page, last, calc, flight>>

\* main with --fill-all-weeks, and fillInMissingWeeks up to its first await:
\* the GET request of getExistingContent is sent.
FillStart ==
    /\ run.pc = "idle"
    /\ ~ConfigAbsent(run.missing)
    /\ run.mode = "fill"
    /\ run' = [run EXCEPT !.pc = "existing"]
    /\ UNCHANGED <<page, last, calc, flight>>

\* The GET request of getExistingContent is answered: the snapshot is the
\* text the store holds now and fetchProjects sends its request; or
\* getPageContent throws, and main ends the process with exit code 1.
FillExisting ==
    /\ run.pc = "existing"
    /\ \E getOk \in BOOLEAN :
          run' = IF getOk
                 THEN [run EXCEPT !.pc = "projects",
                                  !.existingContent = getPageContent(page).content,
                                  !.startGet = "ok"]
                 ELSE [run EXCEPT !.pc = "exit1", !.startGet = "failed"]
    /\ UNCHANGED <<page, last, calc, flight>>

\* main without --fill-all-weeks: processWeek for getLastWeekDates(), with a
\* TogglService that knows no earliestAllowedDate, up to its first await:
\* fetchProjects sends its request.
MainSingleWeek ==
    /\ run.pc = "idle"
    /\ ~ConfigAbsent(run.missing)
    /\ run.mode = "single"
    /\ run' = [run EXCEPT !.pc = "projects"]
    /\ UNCHANGED <<page, last, calc, flight>>

\* The run once the project map is there: the loop of fillInMissingWeeks,
\* or fetchTimeRecords of the single week, which sends its request.
WithProjects(projectMap) ==
    IF run.mode = "fill"
    THEN [run EXCEPT !.pc = "loop", !.projectMap = projectMap]
    ELSE [run EXCEPT !.pc = "fetch", !.projectMap = projectMap,
                     !.startDate = ThisStartDate]

\* The request of fetchProjects is answered: the map of the projects, or a
\* failure, after which fetchProjectsAlternative sends its request.
FetchProjects ==
    /\ run.pc = "projects"
    /\ \E projectsOk \in BOOLEAN :
          run' = IF projectsOk THEN WithProjects("map")
                 ELSE [run EXCEPT !.pc = "projectsAlt"]
    /\ UNCHANGED <<page, last, calc, flight>>

\* The request of fetchProjectsAlternative is answered or fails: the empty
\* map either way.
FetchProjectsAlternative ==
    /\ run.pc = "projectsAlt"
    /\ run' = WithProjects("empty")
    /\ UNCHANGED <<page, last, calc, flight>>

\* One pass of the for loop up to the first await of processWeek: the
\* pre-check on the snapshot, then fetchTimeRecords sends its request.
FillWeek ==
    /\ run.pc = "loop"
    /\ run.i < Len(reversedWeeks)
    /\ run' = IF PreCheck(ThisWeek)
              THEN Counted("skipped", <<>>, "none", "none", run.earliestAllowedDate)
              ELSE [run EXCEPT !.pc = "fetch", !.startDate = ThisStartDate]
    /\ UNCHANGED <<page, last, calc, flight>>

\* The request of fetchTimeRecords is answered.  On a range rejection the
\* date is kept and the recursive call sends the next request; a failure
\* and a list of zero entries are thrown; otherwise formatTimeRecords runs
\* and postReport sends the GET request of getPageContent.
ProcessWeekFetch ==
    /\ run.pc = "fetch"
    /\ \E response \in Responses :
          /\ response.kind = "range" => Len(run.pending) + 1 < MaxRequests
          /\ \E f \in {fetchTimeRecords(run.startDate, ThisEndDate,
                                         run.earliestAllowedDate, response,
                                         run.pending)} :
                run' = IF f.result = "range"
                       THEN [run EXCEPT !.startDate = f.startDate,
                                        !.earliestAllowedDate = f.earliestAllowedDate,
                                        !.pending = f.requests]
                       ELSE IF f.result = "fail"
                       THEN Thrown(FetchFailed(response.message), f.requests,
                                   "none", "none")
                       ELSE IF ZeroEntries(f.timeRecords)
                       THEN Thrown(NoTimeRecords, f.requests, "none", "none")
                       ELSE [run EXCEPT !.pc = "get", !.pending = f.requests,
                                        !.formattedReport =
                                            formatTimeRecords(f.timeRecords,
                                                              ProjectMapOf(run.projectMap))]
    /\ UNCHANGED <<page, last, calc, flight>>

\* The GET request of postReport is answered: the merge runs on the text
\* the store holds now, and then savePage sends the PUT request or
\* postReport returns; or getPageContent throws.
ProcessWeekGet ==
    /\ run.pc = "get"
    /\ UNCHANGED calc
    /\ \/ /\ PostReportGetFails
          /\ \E errorMessage \in ErrorMessages :
                run' = Thrown(<<errorMessage>>, run.pending, "failed", "none")
       \/ /\ \E clock \in RunClocks(DatesReadNow(ThisWeek, confluenceDisplayName)) :
                PostReport(ThisWeek, confluenceDisplayName, run.formattedReport, clock)
          /\ run' = IF flight'[confluenceDisplayName] # NoCall
                    THEN [run EXCEPT !.pc = "save"]
                    ELSE Done(run.pending, "ok", "none")

\* The answer of the store to the PUT request kept in the log of the week.
WithAnswer(r, answer) == [r EXCEPT !.log[Len(run.log) + 1].answer = answer]

\* The PUT request of postReport is answered: savePage returns or throws.
ProcessWeekSave ==
    /\ run.pc = "save"
    /\ UNCHANGED calc
    /\ \E answer \in PutAnswers :
          /\ PostReportSave(confluenceDisplayName, answer)
          /\ \E errorMessage \in IF answer = "rejected" THEN ErrorMessages ELSE {""} :
                run' = WithAnswer(IF last'.put = "failed"
                                  THEN Thrown(PutMessage(answer, errorMessage),
                                              run.pending, "ok", "failed")
                                  ELSE Done(run.pending, "ok", "ok"),
                                  answer)

\* await new Promise(resolve => setTimeout(resolve, 2000)) ends.
FillPause ==
    /\ run.pc = "pause"
    /\ run' = [run EXCEPT !.pc = "loop", !.log[Len(run.log)].paused = TRUE]
    /\ UNCHANGED <<page, last, calc, flight>>

\* The summary after the loop; main returns and the process ends with exit code 0.
FillFinish ==
    /\ run.pc = "loop"
    /\ run.i = Len(reversedWeeks)
    /\ run' = [run EXCEPT !.pc = "done"]
    /\ UNCHANGED <<page, last, calc, flight>>

RECURSIVE MergedFrom(_, _)
\* The text after the merges of requests, in order, into content, with a
\* clock that does not advance while a merge runs.
MergedFrom(content, requests) ==
    IF requests = <<>> THEN content
    ELSE MergedFrom(prepareUpdatedContent(content, "b0", MonthOfEndDate(Head(requests)[1]),
                                          Head(requests)[1], Head(requests)[2],
                                          [n \in 1..(MaxFillInit + 1) |-> RunInstants[1]]
                                          ).updatedContent,
                    Tail(requests))

\* The page a run starts from: the empty page, or one that earlier single-week
\* runs of the two users wrote.
FillInitRequests ==
    UNION {[1..n -> {<<w, u>> : w \in {"17/01", "10/01"}, u \in DisplayNames}] :
              n \in 0..MaxFillInit}

InitFill ==
    /\ page \in {[content |-> MergedFrom(<<>>, rs), title |-> "WARs", version |-> 1] :
                    rs \in FillInitRequests}
    /\ last = NoLast
    /\ run = [IdleRun EXCEPT !.mode = "fill"]
    /\ calc = NoCalc
    /\ flight = NoFlight

NextFill ==
    \/ FillStart
    \/ FillExisting
    \/ FetchProjects
    \/ FetchProjectsAlternative
    \/ FillWeek
    \/ ProcessWeekFetch
    \/ ProcessWeekGet
    \/ ProcessWeekSave
    \/ FillPause
    \/ FillFinish

SpecFill == InitFill /\ [][NextFill]_vars

(***************************************************************************)
(* SpecFillDocs: one backfill run on a page that holds any short text when *)
(* the run starts, written by hand or by another tool.                     *)
(***************************************************************************)
FillDocTokens == {H1("March"), H2("10/01"), H3("Alice"), Txt("intro")}

InitFillDocs ==
    /\ page \in {[content |-> d, title |-> "WARs", version |-> 1] :
                    d \in UNION {[1..n -> FillDocTokens] : n \in 0..MaxFillDocLen}}
    /\ last = NoLast
    /\ run = [IdleRun EXCEPT !.mode = "fill"]
    /\ calc = NoCalc
    /\ flight = NoFlight

SpecFillDocs == InitFillDocs /\ [][NextFill]_vars

(***************************************************************************)
(* SpecMain: one run of the process, in either mode and with any setting   *)
(* of the environment.                                                     *)
(***************************************************************************)
\* The settings of the environment: everything set, one variable not set,
\* or none set.
MissingSets ==
    {{}} \cup {{v} : v \in RequiredVariables \cup OtherVariables}
    \cup {RequiredVariables \cup OtherVariables}

InitMain ==
    /\ page \in {[content |-> MergedFrom(<<>>, rs), title |-> "WARs", version |-> 1] :
                    rs \in FillInitRequests}
    /\ last = NoLast
    /\ run \in {[IdleRun EXCEPT !.mode = m, !.missing = ms] :
                   m \in {"single", "fill"}, ms \in MissingSets}
    /\ calc = NoCalc
    /\ flight = NoFlight

NextMain == MainConfigMissing \/ MainSingleWeek \/ NextFill

SpecMain == InitMain /\ [][NextMain]_vars

(***************************************************************************)
(* SpecRace: one run of the process, in either mode, from the empty page,  *)
(* while the other user posts reports for the newest week of the run: the  *)
(* calls of the other user start and end at any point of the run, between  *)
(* the GET and the PUT of a postReport of the run included.                *)
(***************************************************************************)
OtherUser == "Bob"

\* A step of a postReport call of the other user: the GET request is
\* answered and the merge runs, or getPageContent throws, or the PUT request
\* is answered.
OtherPostReport ==
    /\ UNCHANGED <<run, calc>>
    /\ \/ \E clock \in RunClocks(DatesReadNow(reversedWeeks[1], OtherUser)) :
             PostReport(reversedWeeks[1], OtherUser, "b1", clock)
       \/ flight[OtherUser] = NoCall /\ PostReportGetFails
       \/ \E answer \in PutAnswers : PostReportSave(OtherUser, answer)

InitRace ==
    /\ page = [content |-> <<>>, title |-> "WARs", version |-> 1]
    /\ last = NoLast
    /\ run \in {[IdleRun EXCEPT !.mode = m] : m \in {"single", "fill"}}
    /\ calc = NoCalc
    /\ flight = NoFlight

NextRace == NextMain \/ OtherPostReport

SpecRace == InitRace /\ [][NextRace]_vars

(***************************************************************************)
(* The structure of a page text, as the specification of the data model    *)
(* describes it: these definitions state the claims; the program does not  *)
(* use them.                                                               *)
(***************************************************************************)
\* The block of the week heading at position i: up to the token before the
\* next week or month heading.
WeekBlockEnd(content, i) ==
    LET later == {j \in (i + 1)..Len(content) : content[j].k \in {"h1", "h2"}}
    IN  IF later = {} THEN Len(content) ELSE Min(later) - 1

\* The positions of the user headings for displayName inside a block of a
\* week heading for weekEndDate.
UserSections(content, weekEndDate, displayName) ==
    {j \in 1..Len(content) :
        /\ content[j] = H3(displayName)
        /\ \E i \in 1..(j - 1) :
              content[i] = H2(weekEndDate) /\ j <= WeekBlockEnd(content, i)}

UserInWeekBlock(content, weekEndDate, displayName) ==
    UserSections(content, weekEndDate, displayName) # {}

\* Two positions lie in the same month section: no month heading after the
\* first up to the second.
SameMonthSection(content, i, j) ==
    \A x \in (i + 1)..j : content[x].k # "h1"

\* The calendar order of the week-ending labels (day and month only).
CalKey(w) == LabelMonth(w) * 100 + LabelDay(w)

\* The store took the payload of the PUT.
Applied(answer) == answer \in {"200", "204"}

\* Whether piece occurs in text as one contiguous run of tokens.
Occurs(piece, text) ==
    \E x \in 0..(Len(text) - Len(piece)) : SubSeq(text, x + 1, x + Len(piece)) = piece

\* The merge the last postReport ran, repeated on another text.
MergeAgain(content, clock) ==
    prepareUpdatedContent(content, last.body, MonthOfEndDate(last.endDate),
                          last.endDate, last.displayName, clock)

\* The clocks of that merge.
MergeAgainClocks(content) ==
    Clocks(DatesRead(content, MonthOfEndDate(last.endDate), last.endDate,
                     last.displayName))

Merged == last.kind = "merged"

(***************************************************************************)
(* C1.  Idempotence: merging the same request into the text a merge        *)
(* returned reports AlreadyExists and returns that text unchanged, on      *)
(* whatever day the second merge runs.                                     *)
(***************************************************************************)
C1_MergeTwiceIsNoOp ==
    Merged =>
        \A c \in MergeAgainClocks(last.output) :
            /\ MergeAgain(last.output, c).status = AlreadyExists
            /\ MergeAgain(last.output, c).updatedContent = last.output

\* A merge that added a week to a month that a hand-written page already held.
C1_Witness ==
    /\ Merged
    /\ last.status = AddedWeekToMonth
    /\ last.put = "ok"
    /\ Txt("intro") \in {last.input[i] : i \in 1..Len(last.input)}

(***************************************************************************)
(* C2.  After any merge the returned text holds a user heading for the     *)
(* request's display name inside the block of the request's week heading;  *)
(* and when the input holds the week heading with no such user heading in  *)
(* its block, the outcome is AddedUserToWeek.                              *)
(***************************************************************************)
C2_UserLandsInItsWeek ==
    Merged =>
        /\ UserInWeekBlock(last.output, last.endDate, last.displayName)
        /\ (/\ weekHeadingPatternTest(last.input, last.endDate)
            /\ ~UserInWeekBlock(last.input, last.endDate, last.displayName))
           => last.status = AddedUserToWeek

(***************************************************************************)
(* C3.  hasUser is true exactly when a week heading for the label is       *)
(* followed, before the next week or month heading, by a user heading for  *)
(* the display name.                                                       *)
(***************************************************************************)
C3_HasUserIsBlockLocal ==
    \A w \in WeekLabels, u \in DisplayNames :
        hasWeekForUser(page.content, w, u) <=> UserInWeekBlock(page.content, w, u)

(***************************************************************************)
(* C4.  In every text written from the empty page, the month headings are  *)
(* in descending calendar order and the week headings of every month       *)
(* section are in descending date order.                                   *)
(***************************************************************************)
C4_MonthsAndWeeksDescending ==
    /\ \A i, j \in H1Positions(page.content) :
          i < j => MonthIndexOf(page.content[i].v) > MonthIndexOf(page.content[j].v)
    /\ \A i, j \in 1..Len(page.content) :
          (/\ i < j
           /\ page.content[i].k = "h2"
           /\ page.content[j].k = "h2"
           /\ SameMonthSection(page.content, i, j))
          => CalKey(page.content[i].v) > CalKey(page.content[j].v)

(***************************************************************************)
(* C5.  In every text written from the empty page, a week-ending label and *)
(* a display name have at most one user section between them.              *)
(***************************************************************************)
C5_OneUserSectionPerWeekAndUser ==
    \A w \in WeekLabels, u \in DisplayNames :
        Cardinality(UserSections(page.content, w, u)) <= 1

\* A week holds both users, and the last request, for a section that is there,
\* was turned away.
C5_Witness ==
    /\ \E w \in WeekLabels :
          \A u \in DisplayNames : UserInWeekBlock(page.content, w, u)
    /\ Merged /\ last.status = AlreadyExists
    /\ UserInWeekBlock(page.content, last.endDate, last.displayName)

(***************************************************************************)
(* C6.  In every text written from the empty page, a month name has at     *)
(* most one month heading and, inside a month section, a week-ending label *)
(* has at most one week heading.                                           *)
(***************************************************************************)
C6_MonthsAndWeeksUnique ==
    /\ \A i, j \in H1Positions(page.content) :
          i < j => page.content[i].v # page.content[j].v
    /\ \A i, j \in 1..Len(page.content) :
          (/\ i < j
           /\ page.content[i].k = "h2"
           /\ page.content[j].k = "h2"
           /\ SameMonthSection(page.content, i, j))
          => page.content[i].v # page.content[j].v

\* Every week of the model is on the page, and the last merge added a user to
\* a week that was already there.
C6_Witness ==
    /\ \A w \in WeekLabels : weekHeadingPatternTest(page.content, w)
    /\ Merged /\ last.status = AddedUserToWeek /\ last.put = "ok"

(***************************************************************************)
(* C7.  Every part of the input the request does not target is present in  *)
(* the merged text as it was: the text before the first month heading,     *)
(* every section of a level-1 heading other than the request's month, and  *)
(* in the section of the request's month every block of another week and   *)
(* every user block.                                                       *)
(***************************************************************************)
\* The user block of the user heading at position j: up to the next heading.
UserBlockEnd(content, j) ==
    LET later == {x \in (j + 1)..Len(content) : content[x].k \in {"h1", "h2", "h3"}}
    IN  IF later = {} THEN Len(content) ELSE Min(later) - 1

UntargetedPieces(content, month, weekEndDate) ==
    LET h1s == H1Positions(content)
        preamble == SubSeq(content, 1, IF h1s = {} THEN Len(content) ELSE Min(h1s) - 1)
        inTarget(j) == \E i \in h1s : /\ content[i] = H1(month)
                                      /\ i < j /\ j <= SectionEnd(content, i)
    IN  {preamble}
        \cup {SubSeq(content, i, SectionEnd(content, i)) :
                 i \in {x \in h1s : content[x] # H1(month)}}
        \cup {SubSeq(content, j, WeekBlockEnd(content, j)) :
                 j \in {x \in 1..Len(content) :
                           /\ content[x].k = "h2"
                           /\ content[x] # H2(weekEndDate)
                           /\ inTarget(x)}}
        \cup {SubSeq(content, j, UserBlockEnd(content, j)) :
                 j \in {x \in 1..Len(content) : content[x].k = "h3" /\ inTarget(x)}}

C7_UntargetedTextIsKept ==
    Merged =>
        \A piece \in UntargetedPieces(last.input, MonthOfEndDate(last.endDate),
                                      last.endDate) :
            Occurs(piece, last.output)

(***************************************************************************)
(* C8.  When the input already holds the request's user section in the     *)
(* block of the request's week, the merge returns the snapshot text with   *)
(* outcome AlreadyExists and postReport issues no putPage; the stored page *)
(* is the snapshot.                                                        *)
(***************************************************************************)
C8_ExistingReportIsNoOp ==
    (Merged /\ UserInWeekBlock(last.input, last.endDate, last.displayName)) =>
        /\ last.output = last.input
        /\ last.status = AlreadyExists
        /\ last.put = "none"
        /\ page.content = last.input

\* The page held the user's section for the week with a body other than the
\* request's, and postReport ran on it.
C8_Witness ==
    /\ Merged
    /\ UserInWeekBlock(last.input, last.endDate, last.displayName)
    /\ Txt("intro") \in {last.input[i] : i \in 1..Len(last.input)}
    /\ Txt(last.body) \notin {last.input[i] : i \in 1..Len(last.input)}

(***************************************************************************)
(* C9.  When a user section is added to a week that already holds user     *)
(* sections of other display names, the user headings of that week are the *)
(* earlier ones in their earlier order, followed by the new one.           *)
(***************************************************************************)
IsUserHeading(t) == t.k = "h3"

\* The user headings of the block of the first week heading for weekEndDate.
WeekUserHeadings(content, weekEndDate) ==
    LET i == Min({x \in 1..Len(content) : content[x] = H2(weekEndDate)})
    IN  SelectSeq(SubSeq(content, i, WeekBlockEnd(content, i)), IsUserHeading)

C9_NewUserGoesLast ==
    (/\ Merged
     /\ last.status = AddedUserToWeek
     /\ weekHeadingPatternTest(last.input, last.endDate)
     /\ WeekUserHeadings(last.input, last.endDate) # <<>>
     /\ ~UserInWeekBlock(last.input, last.endDate, last.displayName))
    => WeekUserHeadings(last.output, last.endDate)
         = WeekUserHeadings(last.input, last.endDate) \o <<H3(last.displayName)>>

(***************************************************************************)
(* C10.  When the input holds one section of the request's month, with its *)
(* weeks in descending calendar order and the request's week label nowhere *)
(* in the text, the section of that month in the output is the input's     *)
(* section with the new week section put immediately before the first week *)
(* strictly older than the new one; with no older week it is put at the    *)
(* end of the section, and directly after the month heading when the       *)
(* section has no week.                                                    *)
(***************************************************************************)
\* The text of the one section of month in content.
MonthSectionOf(content, month) ==
    LET i == CHOOSE x \in H1Positions(content) : content[x] = H1(month)
    IN  SubSeq(content, i, SectionEnd(content, i))

WeeksDescending(sec) ==
    \A i, j \in 1..Len(sec) :
        (i < j /\ sec[i].k = "h2" /\ sec[j].k = "h2")
        => CalKey(sec[i].v) > CalKey(sec[j].v)

\* The place the claim gives the new week section: the number of tokens of
\* the month section before it.
ClaimedWeekPosition(sec, weekEndDate) ==
    LET weeks == {j \in 1..Len(sec) : sec[j].k = "h2"}
        older == {j \in weeks : CalKey(sec[j].v) < CalKey(weekEndDate)}
    IN  IF older # {} THEN Min(older) - 1
        ELSE IF weeks # {} THEN Len(sec)
        ELSE 1

C10_Applies ==
    /\ Merged
    /\ Cardinality({x \in H1Positions(last.input) :
                       last.input[x] = H1(MonthOfEndDate(last.endDate))}) = 1
    /\ WeeksDescending(MonthSectionOf(last.input, MonthOfEndDate(last.endDate)))
    /\ ~weekHeadingPatternTest(last.input, last.endDate)

C10_NewWeekBeforeFirstOlder ==
    C10_Applies =>
        LET month == MonthOfEndDate(last.endDate)
            sec == MonthSectionOf(last.input, month)
            pos == ClaimedWeekPosition(sec, last.endDate)
        IN  /\ monthHeadingPatternTest(last.output, month)
            /\ MonthSectionOf(last.output, month)
                 = SubSeq(sec, 1, pos)
                   \o createWeekSection(last.endDate, last.displayName, last.body)
                   \o SubSeq(sec, pos + 1, Len(sec))

(***************************************************************************)
(* C11.  When the input holds no section of the request's month (and the   *)
(* idempotency check did not end the merge), the output holds exactly one  *)
(* heading of that month, and the new month heading, week heading, user    *)
(* heading and body stand together in it; the outcome is AddedNewMonth.    *)
(* Merging into the empty text gives exactly one heading of each level.    *)
(***************************************************************************)
CountOf(content, tok) == Cardinality({i \in 1..Len(content) : content[i] = tok})

HeadingsOfLevel(content, level) == {i \in 1..Len(content) : content[i].k = level}

C11_NewMonthAddsOneOfEach ==
    (/\ Merged
     /\ ~monthHeadingPatternTest(last.input, MonthOfEndDate(last.endDate))
     /\ ~hasWeekForUser(last.input, last.endDate, last.displayName))
    => /\ last.status = AddedNewMonth
       /\ CountOf(last.output, H1(MonthOfEndDate(last.endDate))) = 1
       /\ Occurs(<<H1(MonthOfEndDate(last.endDate)), NL, H2(last.endDate), NL,
                   H3(last.displayName), NL, Txt(last.body)>>, last.output)
       /\ last.input = <<>> =>
             \A level \in {"h1", "h2", "h3"} :
                 Cardinality(HeadingsOfLevel(last.output, level)) = 1

(***************************************************************************)
(* C12.  After a backfill run in which no remote call failed and every     *)
(* fetch returned at least one entry, every week of the year list has a    *)
(* user section of the configured display name inside its own week block   *)
(* of the page; and a week is counted skipped only when the snapshot taken *)
(* at the start holds that user section inside that week's block.          *)
(***************************************************************************)
LogIndexes == 1..Len(run.log)

\* Every upstream request of the run was answered with entries, and every
\* page call of the run succeeded.
NoCallFailed ==
    \A x \in LogIndexes :
        /\ run.log[x].counted \in {"skipped", "processed"}
        /\ \A y \in 1..Len(run.log[x].requests) :
              run.log[x].requests[y].response = "entries"

C12_BackfillCoversEveryWeek ==
    (run.pc = "done" /\ NoCallFailed) =>
        /\ \A x \in 1..Len(allWeeks) :
              UserInWeekBlock(page.content, allWeeks[x], confluenceDisplayName)
        /\ \A x \in LogIndexes :
              run.log[x].counted = "skipped" =>
                  UserInWeekBlock(run.existingContent, run.log[x].week,
                                  confluenceDisplayName)

(***************************************************************************)
(* C13.  In a backfill run a week in which a call fails (the fetch, the    *)
(* page snapshot of postReport, or the page write) increments the errored  *)
(* counter and no other; the weeks are handled one after the other in the  *)
(* order of the reversed list whatever failed before, and the summary is   *)
(* reached only after the last week of the list.                           *)
(***************************************************************************)
\* A call made for the week of a log record failed for good.
WeekFailed(rec) ==
    \/ rec.get = "failed"
    \/ rec.put = "failed"
    \/ rec.requests # <<>> /\ rec.requests[Len(rec.requests)].response = "fail"

CountedAs(counted) == Cardinality({x \in LogIndexes : run.log[x].counted = counted})

C13_FailureIsCountedAndIsolated ==
    /\ \A x \in LogIndexes :
          /\ WeekFailed(run.log[x]) <=> run.log[x].counted = "errored"
          /\ run.log[x].week = reversedWeeks[x]
    /\ run.errorCount = CountedAs("errored")
    /\ run.processedCount = CountedAs("processed")
    /\ run.skippedCount = CountedAs("skipped")
    /\ run.noDataCount = CountedAs("noData")
    /\ run.i = Len(run.log)
    /\ run.pc = "done" => Len(run.log) = Len(allWeeks)

(***************************************************************************)
(* C14.  Backfill mode never ends the process with a non-zero exit code,   *)
(* whatever remote call fails: the failure of the page snapshot or of the  *)
(* project fetch before the loop included, the run goes on to its summary. *)
(***************************************************************************)
C14_BackfillNeverExitsNonZero == run.pc # "exit1"

(***************************************************************************)
(* C15.  When a request of a week's fetch is rejected because its start    *)
(* is before the date X the rejection names, the next request of that      *)
(* fetch is sent with start X and with X stored as earliestAllowedDate;    *)
(* when the fetch then ends with entries and the page calls succeed, the   *)
(* week is counted processed, not errored.                                 *)
(***************************************************************************)
C15_RangeRejectionIsRetriedClamped ==
    \A x \in LogIndexes :
        LET requests == run.log[x].requests
        IN  /\ \A y \in 1..Len(requests) :
                  (requests[y].response = "range" /\ requests[y].startDate < requests[y].date)
                  => /\ y < Len(requests)
                     /\ requests[y + 1].startDate = requests[y].date
                     /\ requests[y + 1].known = requests[y].date
                     /\ requests[y + 1].endDate = requests[y].endDate
            /\ (/\ requests # <<>>
                /\ requests[Len(requests)].response = "entries"
                /\ run.log[x].get = "ok"
                /\ run.log[x].put # "failed")
               => run.log[x].counted = "processed"

\* The first week of a run was rejected at start 13 with X = 15, the retry
\* from 15 returned entries, and the week was written and counted processed.
C15_Witness ==
    /\ Len(run.log) >= 1
    /\ Len(run.log[1].requests) = 2
    /\ run.log[1].requests[1].response = "range"
    /\ run.log[1].requests[1].startDate < run.log[1].requests[1].date
    /\ run.log[1].requests[2].response = "entries"
    /\ run.log[1].counted = "processed"
    /\ run.log[1].put = "ok"
    /\ run.earliestAllowedDate = run.log[1].requests[1].date

(***************************************************************************)
(* C16.  Once earliestAllowedDate is learned in a run it stays set: every  *)
(* later upstream request of the run is sent knowing a date, with a start  *)
(* not earlier than the date known when it is sent.  Hence, when the       *)
(* upstream rejects exactly the requests that start before one date X, a   *)
(* run sees at most one range rejection.                                   *)
(***************************************************************************)
RECURSIVE RequestsUpTo(_)
\* The upstream requests of the first n weeks of the log, in the order sent;
\* AllRequests has those of the week being processed too.
RequestsUpTo(n) == IF n = 0 THEN <<>> ELSE RequestsUpTo(n - 1) \o run.log[n].requests

AllRequests == RequestsUpTo(Len(run.log)) \o run.pending

\* The upstream rejects a request of reqs exactly when it starts before X.
UpstreamRejectsBefore(reqs, X) ==
    \A y \in 1..Len(reqs) :
        /\ (reqs[y].response = "range") <=> (reqs[y].startDate < X)
        /\ reqs[y].response = "range" => reqs[y].date = X

C16_LearnedDateStaysAndClamps ==
    \A reqs \in {AllRequests} :
        /\ \A a, b \in 1..Len(reqs) :
              (a < b /\ (reqs[a].known # NoDate \/ reqs[a].response = "range"))
              => /\ reqs[b].known # NoDate
                 /\ reqs[b].startDate >= reqs[b].known
        /\ (\E y \in 1..Len(reqs) : reqs[y].response = "range")
              => run.earliestAllowedDate # NoDate
        /\ \A X \in RangeDates :
              UpstreamRejectsBefore(reqs, X) =>
                  Cardinality({y \in 1..Len(reqs) : reqs[y].response = "range"}) <= 1

\* The newest week was rejected at start 13 with X = 15; the two older weeks
\* start before 15, were fetched from 15, and were not rejected again.
C16_Witness ==
    /\ run.pc = "done"
    /\ Len(run.log) = 3
    /\ UpstreamRejectsBefore(AllRequests, 15)
    /\ Len(run.log[1].requests) = 2
    /\ run.log[1].requests[1].response = "range"
    /\ Len(run.log[2].requests) = 1
    /\ Len(run.log[3].requests) = 1
    /\ StartDateOf(run.log[2].week) < 15 /\ run.log[2].requests[1].startDate = 15
    /\ StartDateOf(run.log[3].week) < 15 /\ run.log[3].requests[1].startDate = 15

(***************************************************************************)
(* C17.  One week's fetch sends at most two upstream requests, the first   *)
(* and one retry after a range rejection; a retry that is rejected too, by *)
(* another range rejection included, ends the fetch with a failure.        *)
(***************************************************************************)
C17_AtMostOneRetry ==
    \A x \in LogIndexes :
        LET requests == run.log[x].requests
        IN  /\ Len(requests) <= 2
            /\ (Len(requests) = 2 /\ requests[2].response \in {"range", "fail"})
               => run.log[x].counted = "errored"

(***************************************************************************)
(* C18.  A backfill run handles the weeks of the year list newest first:   *)
(* each week handled ends before the one handled before it, the first one  *)
(* handled is the last of the list, no week is handled twice, and a        *)
(* finished run has handled every week of the list.                        *)
(***************************************************************************)
C18_WeeksNewestFirstOnce ==
    /\ \A x, y \in LogIndexes :
          x < y => EndDateOf(run.log[x].week) > EndDateOf(run.log[y].week)
    /\ \A x \in LogIndexes :
          run.log[x].week = allWeeks[Len(allWeeks) + 1 - x]
    /\ run.pc = "done" =>
          \A w \in 1..Len(allWeeks) :
              Cardinality({x \in LogIndexes : run.log[x].week = allWeeks[w]}) = 1

\* A finished run over the three weeks, none of them skipped.
C18_Witness ==
    /\ run.pc = "done"
    /\ Len(run.log) = 3
    /\ run.skippedCount = 0
    /\ run.log[1].week = "17/01"
    /\ run.log[3].week = "03/01"

(***************************************************************************)
(* C19.  A week whose user section the snapshot of the start of the run    *)
(* holds increments the skipped counter and no other, and no fetch, no     *)
(* page read and no page write is made for it; a week is skipped exactly   *)
(* when the pre-check holds on that snapshot, whatever the run has written *)
(* since; until the first write the snapshot is the stored text.           *)
(***************************************************************************)
C19_SkipFollowsInitialSnapshot ==
    /\ \A x \in LogIndexes :
          LET rec == run.log[x]
          IN  /\ UserInWeekBlock(run.existingContent, rec.week, confluenceDisplayName)
                    => rec.counted = "skipped"
              /\ rec.counted = "skipped"
                    <=> hasWeekForUser(run.existingContent, rec.week,
                                       confluenceDisplayName)
              /\ rec.counted = "skipped"
                    => rec.requests = <<>> /\ rec.get = "none" /\ rec.put = "none"
    /\ run.skippedCount = CountedAs("skipped")
    /\ run.skippedCount + run.processedCount + run.errorCount + run.noDataCount
          = Len(run.log)
    /\ (run.startGet = "ok" /\ page.version = 1)
          => run.existingContent = page.content

\* The newest week was written in this run, and the next week, which the
\* snapshot already held, was skipped; the stored text is no longer the snapshot.
C19_Witness ==
    /\ Len(run.log) >= 2
    /\ run.log[1].counted = "processed" /\ run.log[1].put = "ok"
    /\ run.log[2].counted = "skipped"
    /\ UserInWeekBlock(run.existingContent, run.log[2].week, confluenceDisplayName)
    /\ page.content # run.existingContent

(***************************************************************************)
(* C20.  A week whose fetch returns no entry increments the noData counter *)
(* and no other, the errored counter least of all; no page read and no     *)
(* page write is made for it, and the run goes on with the next week.      *)
(***************************************************************************)
FetchedEmpty(rec) ==
    rec.requests # <<>> /\ rec.requests[Len(rec.requests)].response = "empty"

C21_PauseAfterProcessedWeek ==
    /\ \A x \in LogIndexes :
          (run.log[x].counted = "processed" /\ x < Len(allWeeks))
          => \/ run.log[x].paused
             \/ x = Len(run.log) /\ run.pc = "pause"
    /\ \A x, y \in LogIndexes :
          (x < y /\ Applied(run.log[x].answer) /\ Applied(run.log[y].answer))
          => \E z \in x..(y - 1) : run.log[z].paused

(***************************************************************************)
(* C22.  Every PUT of the page carries the version of the snapshot that    *)
(* the same postReport call read, plus one, the title of that snapshot,    *)
(* and the text merged from the content of that snapshot; a PUT that       *)
(* succeeds makes the stored page equal to that payload.                   *)
(***************************************************************************)
C22_PutCarriesSnapshotVersionPlusOne ==
    (Merged /\ last.put # "none") =>
        /\ last.payload.version = last.snapshot.version + 1
        /\ last.payload.title = last.snapshot.title
        /\ last.snapshot.content = last.input
        /\ \E c \in MergeAgainClocks(last.snapshot.content) :
              last.payload.content = MergeAgain(last.snapshot.content, c).updatedContent
        /\ last.answer \in {"200", "204"} => page = last.payload

\* A write that succeeded on a page that had been written twice before.
C22_Witness ==
    /\ Merged
    /\ last.put = "ok"
    /\ last.snapshot.version = 3
    /\ page.version = 4
    /\ page.content # last.snapshot.content

\* The answer that ended the fetch of a logged week.
LastResponse(w) == w.requests[Len(w.requests)].response

\* A step of the processing of a logged week threw: the fetch, the
\* zero-entries test, the read of the page or its write.
ProcessingFailed(w) ==
    \/ LastResponse(w) \in {"fail", "empty"}
    \/ w.get = "failed"
    \/ w.put = "failed"

\* C23: in the single-week mode a failure of the week's processing, a fetch
\* of zero entries or a savePage that throws included, ends the process with
\* exit code 1 and the page as it was, unwritten; exit code 0 is reached
\* only when the merge was completed.
C23_SingleWeekFailureIsFatal ==
    (run.mode = "single" /\ run.log # <<>>) =>
        /\ Len(run.log) = 1
        /\ run.pc \in {"done", "exit1"}
        /\ ProcessingFailed(run.log[1]) =>
              /\ run.pc = "exit1"
              /\ page.version = 1
              /\ last.kind = "merged" => page = last.snapshot
        /\ run.pc = "done" =>
              /\ ~ProcessingFailed(run.log[1])
              /\ LastResponse(run.log[1]) = "entries"
              /\ run.log[1].get = "ok"
              /\ last.kind = "merged"
              /\ last.endDate = run.log[1].week
              /\ last.put = "none" => page = last.snapshot
              /\ last.put = "ok" => page = last.payload

\* C24: when a variable main requires is not set, in either mode, the
\* process makes no remote call (no fetch of entries or projects, no read
\* and no write of the page) and can only end with exit code 1.
C24_MissingConfigExitsBeforeAnyCall ==
    (run.missing \cap RequiredVariables # {}) =>
        /\ run.pc \in {"idle", "exit1"}
        /\ run.startGet = "none"
        /\ run.projectMap = "none"
        /\ run.log = <<>>
        /\ last = NoLast
        /\ page.version = 1

C24_Witness ==
    /\ run.missing = {"CONFLUENCE_BASE_URL"}
    /\ run.mode = "fill"
    /\ run.pc = "exit1"
    /\ run.startGet = "none"

(***************************************************************************)
(* SpecFormat: formatTimeRecords applied to a list of entries and a        *)
(* project map.                                                            *)
(***************************************************************************)
\* The entries: with no pid, with the pid of a project or with a pid no
\* project has; with a description, with none, or with a blank one.
Entries == [pid : {0, 1, 2}, description : {"A", "B", "", " "}]

EntryLists == UNION {[1..n -> Entries] : n \in 0..MaxEntries}

\* The project maps: no project, one project, two projects, two projects
\* of one name, and a project that has the name of a property of every
\* object.
ProjectMaps ==
    {<<>>, [x \in {1} |-> "Site"], <<"Site", "Docs">>, <<"Site", "Site">>,
     <<"Site", "constructor">>}

InitFormat ==
    /\ page = [content |-> <<>>, title |-> "WARs", version |-> 1]
    /\ last = NoLast
    /\ run = IdleRun
    /\ flight = NoFlight
    /\ calc \in {[fn |-> "input", timeRecords |-> es, projectMap |-> m, out |-> ""] :
                    es \in EntryLists, m \in ProjectMaps}

\* The call formatTimeRecords(timeRecords, projectMap).
Format ==
    /\ calc.fn = "input"
    /\ calc' = [calc EXCEPT !.fn = "formatTimeRecords",
                            !.out = formatTimeRecords(calc.timeRecords, calc.projectMap)]
    /\ UNCHANGED <<page, last, run, flight>>

SpecFormat == InitFormat /\ [][Format]_vars

\* The project an entry belongs to: the name its pid has in the map, or
\* "No Project" when it has no pid or the map has no such pid.
ResolvedName(e, m) == IF e.pid \in DOMAIN m THEN m[e.pid] ELSE "No Project"

\* The descriptions that are not blank among the entries of project p.
DescriptionsOf(es, m, p) ==
    {es[i].description : i \in {j \in 1..Len(es) : /\ ResolvedName(es[j], m) = p
                                                  /\ es[j].description \notin {"", " "}}}

\* C25: the output lists every project an entry resolves to once, "No
\* Project" for the entries without a resolvable pid, and under each project
\* every distinct non-blank description of its entries exactly once.
C25_GroupedAndDeduplicated ==
    (calc.fn = "formatTimeRecords" /\ calc.timeRecords # <<>>) =>
        LET es == calc.timeRecords
            m == calc.projectMap
            L == ProjectList(es, m)
        IN  /\ calc.out = "<ul>" \o RenderProjects(L) \o "</ul>"
            /\ {L[x].project : x \in 1..Len(L)} = {ResolvedName(es[i], m) : i \in 1..Len(es)}
            /\ \A x, y \in 1..Len(L) : L[x].project = L[y].project => x = y
            /\ \A x \in 1..Len(L) :
                  /\ {L[x].tasks[y] : y \in 1..Len(L[x].tasks)} = DescriptionsOf(es, m, L[x].project)
                  /\ Len(L[x].tasks) = Cardinality(DescriptionsOf(es, m, L[x].project))

C25_Witness ==
    /\ calc.fn = "formatTimeRecords"
    /\ calc.projectMap = <<"Site">>
    /\ calc.timeRecords = <<[pid |-> 1, description |-> "A"], [pid |-> 2, description |-> "B"],
                            [pid |-> 1, description |-> "A"]>>
    /\ calc.out = "<ul><li>No Project<ul><li>B</li></ul></li><li>Site<ul><li>A</li></ul></li></ul>"

\* The list with its entries in the order perm.
Permuted(es, perm) == [i \in 1..Len(es) |-> es[perm[i]]]

\* C26: the projects are written in ascending order of their names and the
\* descriptions of each project in ascending order, and the output is the
\* same for every order of the entries.
C26_SortedAndOrderIndependent ==
    (calc.fn = "formatTimeRecords" /\ calc.timeRecords # <<>>) =>
        LET es == calc.timeRecords
            m == calc.projectMap
            L == ProjectList(es, m)
        IN  /\ \A x \in 1..(Len(L) - 1) : Rank(L[x].project) < Rank(L[x + 1].project)
            /\ \A x \in 1..Len(L) : \A y \in 1..(Len(L[x].tasks) - 1) :
                  Rank(L[x].tasks[y]) < Rank(L[x].tasks[y + 1])
            /\ calc.out # TypeErrorThrown => calc.out = "<ul>" \o RenderProjects(L) \o "</ul>"
            /\ \A perm \in Permutations(1..Len(es)) :
                  formatTimeRecords(Permuted(es, perm), m) = calc.out

C26_Witness ==
    /\ calc.fn = "formatTimeRecords"
    /\ calc.projectMap = <<"Site">>
    /\ calc.timeRecords = <<[pid |-> 1, description |-> "B"], [pid |-> 0, description |-> "B"],
                            [pid |-> 1, description |-> "A"]>>
    /\ calc.out = "<ul><li>No Project<ul><li>B</li></ul></li><li>Site<ul><li>A</li><li>B</li></ul></li></ul>"

\* The text holds the placeholder as a body.
HoldsPlaceholder(content) == \E x \in 1..Len(content) : content[x] = Txt(Placeholder)

\* C27: formatTimeRecords of the empty list is the placeholder and no list;
\* a week whose fetch gave zero entries makes no page call, and no body a
\* run merges and no text it writes holds the placeholder.
C27_PlaceholderIsNeverWritten ==
    /\ \A projectMap \in {"map", "empty"} :
          /\ formatTimeRecords(<<>>, ProjectMapOf(projectMap)) = Placeholder
          /\ formatTimeRecords(<<>>, ProjectMapOf(projectMap)) # "<ul></ul>"
    /\ ~HoldsPlaceholder(page.content)
    /\ last.kind = "merged" =>
          /\ last.body # Placeholder
          /\ ~HoldsPlaceholder(last.output)
          /\ ~HoldsPlaceholder(last.payload.content)
    /\ \A x \in 1..Len(run.log) :
          run.log[x].requests # <<>> /\ LastResponse(run.log[x]) = "empty" =>
              run.log[x].get = "none" /\ run.log[x].put = "none"

C27_Witness ==
    /\ run.mode = "fill"
    /\ run.pc = "done"
    /\ run.log[1].counted = "noData"
    /\ LastResponse(run.log[1]) = "empty"
    /\ run.log[2].put = "ok"
    /\ last.body = "<ul><li>Site<ul><li>A</li></ul></li></ul>"
    /\ ~HoldsPlaceholder(page.content)

(***************************************************************************)
(* SpecDates: the date utilities applied on any day of the first weeks of  *)
(* a year that starts on any day of the week.                              *)
(***************************************************************************)
InitDates ==
    /\ page = [content |-> <<>>, title |-> "WARs", version |-> 1]
    /\ last = NoLast
    /\ run = IdleRun
    /\ flight = NoFlight
    /\ calc \in {[fn |-> "input", today |-> Date(d, t), jan1 |-> j] :
                    d \in 1..MaxToday, t \in StartOfDay..EndOfDay, j \in 0..6}

\* The call getLastWeekDates().
LastWeekDates ==
    /\ calc.fn = "input"
    /\ calc' = [fn |-> "getLastWeekDates", today |-> calc.today, jan1 |-> calc.jan1,
                out |-> getLastWeekDates(calc.today, calc.jan1)]
    /\ UNCHANGED <<page, last, run, flight>>

\* The call getAllWeeksInYear().
AllWeeksInYear ==
    /\ calc.fn = "input"
    /\ calc' = [fn |-> "getAllWeeksInYear", today |-> calc.today, jan1 |-> calc.jan1,
                out |-> getAllWeeksInYear(calc.today, calc.jan1)]
    /\ UNCHANGED <<page, last, run, flight>>

NextDates == LastWeekDates \/ AllWeeksInYear

SpecDates == InitDates /\ [][NextDates]_vars

\* The day of the week of day number d in a year whose 1 January is jan1.
Weekday(d, jan1) == (jan1 + d - 1) % 7

\* The week runs from a Monday, at its start, to the Friday four days
\* later, at its end.
MondayToFriday(week, jan1) ==
    /\ Weekday(week.endDate.day, jan1) = 5
    /\ week.endDate.time = EndOfDay
    /\ week.startDate.day = week.endDate.day - 4
    /\ Weekday(week.startDate.day, jan1) = 1
    /\ week.startDate.time = StartOfDay

\* C28: on every day of the week getLastWeekDates gives as endDate the last
\* Friday strictly before today, at most 7 days back, and as startDate the
\* Monday 4 days before that Friday.
C28_LastWeekIsLastCompletedFriday ==
    calc.fn = "getLastWeekDates" =>
        /\ MondayToFriday(calc.out, calc.jan1)
        /\ calc.out.endDate.day < calc.today.day
        /\ calc.today.day - calc.out.endDate.day <= 7
        /\ \A d \in (calc.out.endDate.day + 1)..(calc.today.day - 1) :
              Weekday(d, calc.jan1) # 5

C28_Witness ==
    /\ calc.fn = "getLastWeekDates"
    /\ calc.jan1 = 3
    /\ calc.today = Date(3, 1)
    /\ Weekday(calc.today.day, calc.jan1) = 5
    /\ calc.out = [startDate |-> Date(-8, StartOfDay), endDate |-> Date(-4, EndOfDay)]

\* The instants in the order of time: three to a day.
Instant(date) == date.day * (EndOfDay + 1) + date.time

\* C29: getAllWeeksInYear gives the weeks oldest first: the first endDate is
\* the first Friday of the year, each next endDate is 7 days later, every
\* endDate is a Friday not later than now, and every startDate is the
\* Monday 4 days before its endDate.
C29_AllWeeksAreFridaysOfTheYear ==
    calc.fn = "getAllWeeksInYear" =>
        LET weeks == calc.out
            FirstFridayDay == CHOOSE d \in 1..7 : Weekday(d, calc.jan1) = 5
        IN  /\ weeks # <<>> => weeks[1].endDate.day = FirstFridayDay
            /\ weeks = <<>> => ~(Instant(Date(FirstFridayDay, EndOfDay)) <= Instant(calc.today))
            /\ \A x \in 1..(Len(weeks) - 1) :
                  weeks[x + 1].endDate.day = weeks[x].endDate.day + 7
            /\ \A x \in 1..Len(weeks) :
                  /\ MondayToFriday(weeks[x], calc.jan1)
                  /\ Instant(weeks[x].endDate) <= Instant(calc.today)

C29_Witness ==
    /\ calc.fn = "getAllWeeksInYear"
    /\ calc.jan1 = 3
    /\ calc.today = Date(17, 1)
    /\ Len(calc.out) = 2
    /\ calc.out[1] = [startDate |-> Date(-1, StartOfDay), endDate |-> Date(3, EndOfDay)]
    /\ calc.out[2] = [startDate |-> Date(6, StartOfDay), endDate |-> Date(10, EndOfDay)]

\* The case addContentToMonthSections applies to the month map of the text
\* the merge read: a new month section, a new week block in the section of
\* the month, or a new user section in the week block of that section.
AppliedCase(content, month, weekEndDate) ==
    LET sections == extractMonthSections(content)
    IN  IF month \notin DOMAIN sections THEN AddedNewMonth
        ELSE IF ~weekHeadingPatternTest(sections[month], weekEndDate) THEN AddedWeekToMonth
        ELSE AddedUserToWeek

\* C30: when the merge changes the text, the outcome it reports names the
\* case that was applied: AddedNewMonth exactly when the month had no
\* section, AddedWeekToMonth exactly when the section of the month had no
\* heading of the week, AddedUserToWeek exactly when the section held the
\* heading of the week without the user; also when the heading of the week
\* stands under another month or under none.
C30_OutcomeNamesAppliedCase ==
    (Merged /\ last.status # AlreadyExists) =>
        /\ last.status \in {AddedNewMonth, AddedWeekToMonth, AddedUserToWeek}
        /\ last.status = AppliedCase(last.input, MonthOfEndDate(last.endDate), last.endDate)

\* The step ends the handling of one more week of the backfill run, a week
\* for which the page was read.
WeekStepWithRead ==
    /\ Len(run'.log) = Len(run.log) + 1
    /\ run'.log[Len(run'.log)].get = "ok"

\* The step runs the merge of a week and sends its PUT.
MergeStep ==
    /\ flight[confluenceDisplayName] = NoCall
    /\ flight'[confluenceDisplayName] # NoCall

\* C31: in a backfill run every merge works on the page as it is stored when
\* the week is handled, after every earlier write of the run, and not on the
\* text read before the loop; each PUT the store takes stores the version
\* one above the stored one, and no other step changes the page.
C31_MergeReadsStoredPage ==
    [][/\ MergeStep => flight'[confluenceDisplayName].snapshot = page
       /\ WeekStepWithRead =>
             /\ last'.kind = "merged"
             /\ last'.snapshot = page
             /\ last'.input = page.content
             /\ Applied(last'.answer) =>
                    (page' = last'.payload /\ page'.version = page.version + 1)
             /\ ~Applied(last'.answer) => page' = page
       /\ ~WeekStepWithRead => page' = page]_vars

C31_Witness ==
    /\ run.pc = "done"
    /\ page.version = 3
    /\ last.kind = "merged"
    /\ last.put = "ok"
    /\ last.snapshot.version = 2
    /\ last.input # run.existingContent

\* C32: a postReport call sends one PUT when the outcome of the merge is not
\* AlreadyExists, and then the merged text differs from the text read, and
\* no PUT when it is; a PUT that fails is thrown to the caller and is not
\* sent again, so that the store holds what it held before that PUT.
C32_OnePutUnlessAlreadyExists ==
    Merged =>
        /\ last.puts = IF last.status = AlreadyExists THEN 0 ELSE 1
        /\ (last.status = AlreadyExists) <=> (last.put = "none")
        /\ (last.status # AlreadyExists) <=> (last.output # last.input)
        /\ last.put = "none" => (last.payload = NoPayload /\ page = last.snapshot)
        /\ last.answer = "rejected" => (last.put = "failed" /\ page = last.before)
        /\ last.put = "ok" => page = last.payload

\* A PUT for a user added to a week of a hand-written page was rejected.
C32_Witness ==
    /\ Merged
    /\ last.status = AddedUserToWeek
    /\ last.answer = "rejected"
    /\ last.put = "failed"
    /\ last.puts = 1
    /\ last.payload.version = 2
    /\ page = last.snapshot
    /\ last.output # last.input

\* The number of weeks of the log counted as c.
LoggedAs(c) == Cardinality({x \in LogIndexes : run.log[x].counted = c})

\* C33: in a backfill run every handled week has incremented exactly one of
\* the four counters: after k weeks the four counts sum to k, each count is
\* the number of weeks counted so, and in the summary they sum to the number
\* of weeks of the year.
C33_CountersSumToWeeksHandled ==
    /\ run.processedCount + run.skippedCount + run.noDataCount + run.errorCount
          = Len(run.log)
    /\ run.i = Len(run.log)
    /\ run.processedCount = LoggedAs("processed")
    /\ run.skippedCount = LoggedAs("skipped")
    /\ run.noDataCount = LoggedAs("noData")
    /\ run.errorCount = LoggedAs("errored")
    /\ run.pc = "done" =>
          run.processedCount + run.skippedCount + run.noDataCount + run.errorCount
             = Len(allWeeks)

C33_Witness ==
    /\ run.pc = "done"
    /\ run.processedCount = 1
    /\ run.noDataCount = 1
    /\ run.errorCount = 1
    /\ run.skippedCount = 0

\* The step ends the handling of one more week of the backfill run and
\* counts it as an error or as a week with no data.
WeekStepFailed ==
    /\ Len(run'.log) = Len(run.log) + 1
    /\ run'.log[Len(run'.log)].counted \in {"errored", "noData"}

\* C34: a week that is counted errored or noData leaves the stored page as
\* it was before the week, content and version, also when its PUT failed.
\* No step of the week before its last changes the page, so the page
\* before the week is the page before that step.
C34_FailedWeekLeavesPage ==
    [][WeekStepFailed => page' = page]_vars

\* C35: in a backfill run, whatever the page holds at the start, a week is
\* counted processed only when one PUT was sent for it and succeeded; a week
\* whose merge returns AlreadyExists is not counted processed.
C35_ProcessedMeansWritten ==
    \A x \in LogIndexes :
        /\ run.log[x].counted = "processed" => run.log[x].put = "ok"
        /\ (x = Len(run.log) /\ run.log[x].get = "ok" /\ last.status = AlreadyExists) =>
              run.log[x].counted # "processed"

\* C36: on the same text, week label and display name, the pre-check of the
\* backfill run is true exactly when the merge returns AlreadyExists, and
\* then the merge returns the text as it is.
C36_PreCheckAgreesWithMerge ==
    Merged =>
        /\ hasWeekForUser(last.input, last.endDate, last.displayName)
              <=> (last.status = AlreadyExists)
        /\ hasWeekForUser(last.input, last.endDate, last.displayName)
              => last.output = last.input

C36_Witness ==
    /\ Merged
    /\ last.input = <<H2("14/03"), H2("12/02"), H3("Alice")>>
    /\ last.endDate = "14/03"
    /\ last.displayName = "Alice"
    /\ last.status = AlreadyExists

\* C37: every request sent to the time-tracking source has a startDate not
\* later than its endDate, also when the start was clamped to the learned
\* earliestAllowedDate for a week that ends before that date.
C37_StartNotAfterEnd ==
    \A x \in LogIndexes : \A y \in 1..Len(run.log[x].requests) :
        run.log[x].requests[y].startDate <= run.log[x].requests[y].endDate

====
